---- MODULE Spec2Model ----
(***************************************************************************)
(* Comment anchoring in AARI docs: the anchoring module (anchor create /    *)
(* resolve, fallback anchors, position codec), the useComments hook        *)
(* (addComment, resolveCommentPositions, getResolvedComments) and the      *)
(* editor's syncToYjs, over a Y.Text modelled as a list of per-character   *)
(* items with tombstones.                                                  *)
(*                                                                         *)
(* Strings are sequences of one-character strings, byte arrays sequences   *)
(* of 0..255, so that base64, the Yjs binary encoding and JSON are         *)
(* computed and not assumed.                                               *)
(***************************************************************************)
EXTENDS Integers, Sequences, FiniteSets, TLC

Null == "null"

\* ---------------------------------------------------------------- bounds
\* Longest editor text the editing actions build.
MaxDocLen == 4
\* Number of user operations (edits and added comments) in one behaviour.
MaxOps == 2
\* Largest offset stored in a fallback anchor.
MaxOffset == 12
\* Largest raw offset and document size handed to resolveCommentAnchor.
MaxRaw == 4
\* Longest item list of a sample tracked document.
MaxItems == 3
MaxClock == 130
MaxBytes == 3
MaxInstances == 3

\* ------------------------------------------------------- general helpers
Min(a, b) == IF a < b THEN a ELSE b
Max(a, b) == IF a > b THEN a ELSE b

\* The first n elements of s, and s without them.
Take(s, n) == SubSeq(s, 1, Min(n, Len(s)))
Drop(s, n) == SubSeq(s, Min(n, Len(s)) + 1, Len(s))

\* ----------------------------------------------------------------- base64
B64Chars ==
  << "A","B","C","D","E","F","G","H","I","J","K","L","M","N","O","P",
     "Q","R","S","T","U","V","W","X","Y","Z","a","b","c","d","e","f",
     "g","h","i","j","k","l","m","n","o","p","q","r","s","t","u","v",
     "w","x","y","z","0","1","2","3","4","5","6","7","8","9","+","/" >>

IsB64Char(ch) == \E i \in 1..64 : B64Chars[i] = ch
B64Value(ch) == (CHOOSE i \in 1..64 : B64Chars[i] = ch) - 1
B64Char(v) == B64Chars[v + 1]

\* btoa over the binary string of a byte array (hooks.ts), and
\* Buffer.toString('base64') (anchoring module): RFC 4648 with padding.
RECURSIVE Base64Encode(_)
Base64Encode(bytes) ==
  IF Len(bytes) = 0 THEN <<>>
  ELSE IF Len(bytes) = 1 THEN
    << B64Char(bytes[1] \div 4), B64Char((bytes[1] % 4) * 16), "=", "=" >>
  ELSE IF Len(bytes) = 2 THEN
    << B64Char(bytes[1] \div 4),
       B64Char((bytes[1] % 4) * 16 + bytes[2] \div 16),
       B64Char((bytes[2] % 16) * 4), "=" >>
  ELSE
    << B64Char(bytes[1] \div 4),
       B64Char((bytes[1] % 4) * 16 + bytes[2] \div 16),
       B64Char((bytes[2] % 16) * 4 + bytes[3] \div 64),
       B64Char(bytes[3] % 64) >> \o Base64Encode(Drop(bytes, 3))

\* Bytes of a sequence of base64 alphabet characters (no padding); a single
\* left-over character carries no whole byte.
RECURSIVE SextetsToBytes(_)
SextetsToBytes(cs) ==
  IF Len(cs) < 2 THEN <<>>
  ELSE LET a == B64Value(cs[1])
           b == B64Value(cs[2])
       IN IF Len(cs) = 2 THEN << a * 4 + b \div 16 >>
          ELSE LET c == B64Value(cs[3])
               IN IF Len(cs) = 3
                  THEN << a * 4 + b \div 16, (b % 16) * 16 + c \div 4 >>
                  ELSE << a * 4 + b \div 16, (b % 16) * 16 + c \div 4,
                          (c % 4) * 64 + B64Value(cs[4]) >>
                       \o SextetsToBytes(Drop(cs, 4))

IsNotSpace(ch) == ch # " "

\* Trailing "=" removed as atob's forgiving decode does: one or two, and only
\* when the length is a multiple of four.
StripPadding(s) ==
  IF Len(s) > 0 /\ Len(s) % 4 = 0 /\ s[Len(s)] = "="
  THEN IF Len(s) > 1 /\ s[Len(s) - 1] = "="
       THEN Take(s, Len(s) - 2)
       ELSE Take(s, Len(s) - 1)
  ELSE s

\* atob: [ok |-> FALSE] stands for the InvalidCharacterError it throws.
Atob(s) ==
  LET t == StripPadding(SelectSeq(s, IsNotSpace))
  IN IF Len(t) % 4 = 1 \/ \E i \in 1..Len(t) : ~IsB64Char(t[i])
     THEN [ok |-> FALSE, bytes |-> <<>>]
     ELSE [ok |-> TRUE, bytes |-> SextetsToBytes(t)]

\* The characters before the first "=" of s.
RECURSIVE UpToPadding(_)
UpToPadding(s) ==
  IF s = <<>> \/ Head(s) = "=" THEN <<>>
  ELSE <<Head(s)>> \o UpToPadding(Tail(s))

\* Buffer.from(s, 'base64'): lenient, characters outside the alphabet are
\* skipped and decoding stops at the padding; it never throws.
BufferFromBase64(s) == SextetsToBytes(SelectSeq(UpToPadding(s), IsB64Char))

\* --------------------------------------------- lib0 variable-length ints
\* writeVarUint writing one byte whatever the number.
WriteVarUintOneByte(n) == <<n % 256>>

RECURSIVE WriteVarUint(_)
WriteVarUint(n) ==
  IF n < 128 THEN <<n>> ELSE <<128 + (n % 128)>> \o WriteVarUint(n \div 128)

\* [ok |-> FALSE] stands for "Unexpected end of array".
RECURSIVE ReadVarUint(_)
ReadVarUint(bs) ==
  IF bs = <<>> THEN [ok |-> FALSE, val |-> 0, rest |-> <<>>]
  ELSE IF Head(bs) < 128 THEN [ok |-> TRUE, val |-> Head(bs), rest |-> Tail(bs)]
  ELSE LET r == ReadVarUint(Tail(bs))
       IN [ok |-> r.ok, val |-> (Head(bs) - 128) + 128 * r.val, rest |-> r.rest]

\* writeVarInt: sign in bit 6 of the first byte, six value bits, then
\* seven-bit groups.
WriteVarInt(n) ==
  LET a == IF n < 0 THEN 0 - n ELSE n
      s == IF n < 0 THEN 64 ELSE 0
  IN IF a < 64 THEN <<s + a>>
     ELSE <<128 + s + (a % 64)>> \o WriteVarUint(a \div 64)

ReadVarInt(bs) ==
  IF bs = <<>> THEN [ok |-> FALSE, val |-> 0, rest |-> <<>>]
  ELSE LET b == Head(bs)
           sign == IF (b \div 64) % 2 = 1 THEN -1 ELSE 1
       IN IF b < 128 THEN [ok |-> TRUE, val |-> sign * (b % 64), rest |-> Tail(bs)]
          ELSE LET r == ReadVarUint(Tail(bs))
               IN [ok |-> r.ok, val |-> sign * ((b % 64) + 64 * r.val),
                   rest |-> r.rest]

\* ------------------------------------------------------ Yjs: the Y.Text
\* clientID of the one Y.Doc the Editor creates; two bytes as a varuint.
ClientID == 200

\* UTF-8 bytes of 'content', the root name of the tracked Y.Text, and of
\* 'prosemirror', the root name of the fragment.
ContentName == <<99, 111, 110, 116, 101, 110, 116>>
FragmentName == <<112, 114, 111, 115, 101, 109, 105, 114, 114, 111, 114>>

\* A Y.Text is its item list in list order, one item per character:
\* [clock, ch, deleted]. Deleted items stay in the list as tombstones.
YLive(yt) == SelectSeq(yt, LAMBDA it : ~it.deleted)
YLength(yt) == Len(YLive(yt))
YToString(yt) == [i \in 1..YLength(yt) |-> YLive(yt)[i].ch]
\* getState(store, ClientID): the next clock of the client.
YState(yt) == Len(yt)

\* ytext.delete(0, ytext.length): every live item becomes a tombstone.
YDeleteAll(yt) == [i \in 1..Len(yt) |-> [yt[i] EXCEPT !.deleted = TRUE]]

\* ytext.insert(0, text) on a list whose items are all deleted: the insert
\* position is moved right past deleted items (minimizeAttributeChanges), so
\* the new items follow the tombstones. An empty text inserts nothing.
RECURSIVE LeadingTombstones(_)
LeadingTombstones(yt) ==
  IF yt = <<>> \/ ~Head(yt).deleted THEN 0 ELSE 1 + LeadingTombstones(Tail(yt))

YInsertAtStart(yt, text) ==
  LET lead == LeadingTombstones(yt)
      new == [i \in 1..Len(text) |->
                [clock |-> YState(yt) + i - 1, ch |-> text[i], deleted |-> FALSE]]
  IN Take(yt, lead) \o new \o Drop(yt, lead)

\* ------------------------------------------------ Yjs: relative positions
\* RelativePosition(type, tname, item, assoc); kind tells which of the three
\* is set ("none": all null).
RelItem(client, clock, assoc) ==
  [kind |-> "item", client |-> client, clock |-> clock, tname |-> <<>>,
   assoc |-> assoc]
RelTname(tname, assoc) ==
  [kind |-> "tname", client |-> 0, clock |-> 0, tname |-> tname, assoc |-> assoc]
RelType(client, clock, assoc) ==
  [kind |-> "type", client |-> client, clock |-> clock, tname |-> <<>>,
   assoc |-> assoc]
RelNone(assoc) ==
  [kind |-> "none", client |-> 0, clock |-> 0, tname |-> <<>>, assoc |-> assoc]

\* Y.createRelativePositionFromTypeIndex(type, index) with assoc = 0: the id
\* of the index-th live character, or the type itself at or past the end.
CreateRelativePositionFromTypeIndex(yt, rootName, index) ==
  LET live == YLive(yt)
  IN IF index < Len(live)
     THEN RelItem(ClientID, live[index + 1].clock, 0)
     ELSE RelTname(rootName, 0)

\* Y.encodeRelativePosition
EncodeRelativePosition(rp) ==
  CASE rp.kind = "item" ->
         <<0>> \o WriteVarUint(rp.client) \o WriteVarUint(rp.clock)
               \o WriteVarInt(rp.assoc)
    [] rp.kind = "tname" ->
         <<1>> \o WriteVarUint(Len(rp.tname)) \o rp.tname \o WriteVarInt(rp.assoc)
    [] OTHER ->
         <<2>> \o WriteVarUint(rp.client) \o WriteVarUint(rp.clock)
               \o WriteVarInt(rp.assoc)

\* readVarInt of the association when bytes are left, 0 otherwise.
ReadAssoc(bs) == IF bs = <<>> THEN [ok |-> TRUE, val |-> 0] ELSE
  [ok |-> ReadVarInt(bs).ok, val |-> ReadVarInt(bs).val]

\* Y.decodeRelativePosition: [ok |-> FALSE] when a read runs off the array.
DecodeRelativePosition(bytes) ==
  LET tag == ReadVarUint(bytes)
      bad == [ok |-> FALSE, rp |-> RelNone(0)]
  IN IF ~tag.ok THEN bad
     ELSE IF tag.val \in {0, 2} THEN
       LET c == ReadVarUint(tag.rest)
           k == ReadVarUint(c.rest)
           a == ReadAssoc(k.rest)
       IN IF ~c.ok \/ ~k.ok \/ ~a.ok THEN bad
          ELSE [ok |-> TRUE,
                rp |-> IF tag.val = 0 THEN RelItem(c.val, k.val, a.val)
                       ELSE RelType(c.val, k.val, a.val)]
     ELSE IF tag.val = 1 THEN
       LET n == ReadVarUint(tag.rest)
           a == ReadAssoc(Drop(n.rest, n.val))
       IN IF ~n.ok \/ Len(n.rest) < n.val \/ ~a.ok THEN bad
          ELSE [ok |-> TRUE, rp |-> RelTname(Take(n.rest, n.val), a.val)]
     ELSE LET a == ReadAssoc(tag.rest)
          IN IF ~a.ok THEN bad ELSE [ok |-> TRUE, rp |-> RelNone(a.val)]

\* Y.createAbsolutePositionFromRelativePosition on the document whose root
\* type rootName has the item list yt. kind: "abs" (type and index),
\* "null", or "throw" (unexpectedCase). onRoot: the position's type is the
\* root type rootName.
AbsNull == [kind |-> "null", onRoot |-> FALSE, index |-> 0]
AbsThrow == [kind |-> "throw", onRoot |-> FALSE, index |-> 0]
CreateAbsolutePositionFromRelativePosition(rp, yt, rootName) ==
  CASE rp.kind = "item" ->
         IF rp.client # ClientID \/ YState(yt) <= rp.clock THEN AbsNull
         ELSE LET i == CHOOSE j \in 1..Len(yt) : yt[j].clock = rp.clock
                  left == YLength(Take(yt, i - 1))
              IN [kind |-> "abs", onRoot |-> TRUE,
                  index |-> left + (IF yt[i].deleted \/ rp.assoc >= 0 THEN 0 ELSE 1)]
    [] rp.kind = "tname" ->
         IF rp.tname = rootName
         THEN [kind |-> "abs", onRoot |-> TRUE,
               index |-> IF rp.assoc >= 0 THEN YLength(yt) ELSE 0]
         ELSE [kind |-> "abs", onRoot |-> FALSE, index |-> 0]
    [] rp.kind = "type" -> AbsNull
    [] OTHER -> AbsThrow

\* -------------------------------------------------------------------- JSON
DigitChars == <<"0", "1", "2", "3", "4", "5", "6", "7", "8", "9">>
IsDigit(ch) == \E i \in 1..10 : DigitChars[i] = ch
DigitValue(ch) == (CHOOSE i \in 1..10 : DigitChars[i] = ch) - 1

RECURSIVE NatToString(_)
NatToString(n) ==
  IF n < 10 THEN <<DigitChars[n + 1]>>
  ELSE NatToString(n \div 10) \o <<DigitChars[(n % 10) + 1]>>

\* Number.prototype.toString of an integer.
NumberToString(n) == IF n < 0 THEN <<"-">> \o NatToString(0 - n) ELSE NatToString(n)

AbsoluteKey == <<"a", "b", "s", "o", "l", "u", "t", "e">>

\* JSON.stringify({ absolute: n }) for an integer n.
StringifyAbsolute(n) ==
  <<"{", "\"">> \o AbsoluteKey \o <<"\"", ":">> \o NumberToString(n) \o <<"}">>

\* JSON values: numbers carry n; undefined is what a missing property reads as.
JNum(n) == [t |-> "number", n |-> n]
JNull == [t |-> "null", n |-> 0]
JBool == [t |-> "boolean", n |-> 0]
JStr == [t |-> "string", n |-> 0]
JUndefined == [t |-> "undefined", n |-> 0]

ParseFail == [ok |-> FALSE, v |-> JUndefined, next |-> 0, str |-> <<>>]

\* Number of digits of s from position i on.
RECURSIVE DigitRun(_, _)
DigitRun(s, i) ==
  IF i > Len(s) \/ ~IsDigit(s[i]) THEN 0 ELSE 1 + DigitRun(s, i + 1)

RECURSIVE DigitsValue(_)
DigitsValue(ds) ==
  IF ds = <<>> THEN 0
  ELSE 10 * DigitsValue(Take(ds, Len(ds) - 1)) + DigitValue(ds[Len(ds)])

\* A JSON integer at position i: "-"? ("0" | [1-9][0-9]*).
ParseNumberAt(s, i) ==
  LET neg == i <= Len(s) /\ s[i] = "-"
      j == IF neg THEN i + 1 ELSE i
      run == DigitRun(s, j)
      d == IF run > 0 /\ s[j] = "0" THEN 1 ELSE run
  IN IF d = 0 THEN ParseFail
     ELSE [ok |-> TRUE,
           v |-> JNum((IF neg THEN -1 ELSE 1) * DigitsValue(SubSeq(s, j, j + d - 1))),
           next |-> j + d, str |-> <<>>]

\* Position of the first double quote of s at or after i, 0 when none.
RECURSIVE QuoteAt(_, _)
QuoteAt(s, i) ==
  IF i > Len(s) THEN 0 ELSE IF s[i] = "\"" THEN i ELSE QuoteAt(s, i + 1)

\* A JSON string without escapes at position i.
ParseStringAt(s, i) ==
  IF i > Len(s) \/ s[i] # "\"" \/ QuoteAt(s, i + 1) = 0 THEN ParseFail
  ELSE [ok |-> TRUE, v |-> JStr, next |-> QuoteAt(s, i + 1) + 1,
        str |-> SubSeq(s, i + 1, QuoteAt(s, i + 1) - 1)]

ParseLiteralAt(s, i, lit, v) ==
  IF i + Len(lit) - 1 <= Len(s) /\ SubSeq(s, i, i + Len(lit) - 1) = lit
  THEN [ok |-> TRUE, v |-> v, next |-> i + Len(lit), str |-> <<>>]
  ELSE ParseFail

\* A scalar JSON value at position i.
ParseScalarAt(s, i) ==
  IF i > Len(s) THEN ParseFail
  ELSE IF s[i] = "\"" THEN ParseStringAt(s, i)
  ELSE IF s[i] = "n" THEN ParseLiteralAt(s, i, <<"n", "u", "l", "l">>, JNull)
  ELSE IF s[i] = "t" THEN ParseLiteralAt(s, i, <<"t", "r", "u", "e">>, JBool)
  ELSE IF s[i] = "f" THEN ParseLiteralAt(s, i, <<"f", "a", "l", "s", "e">>, JBool)
  ELSE ParseNumberAt(s, i)

\* The members of an object from position i on, up to its closing brace;
\* abs is the value of the "absolute" member read so far.
RECURSIVE ParseMembersAt(_, _, _)
ParseMembersAt(s, i, abs) ==
  LET key == ParseStringAt(s, i)
      val == ParseScalarAt(s, key.next + 1)
      got == IF key.str = AbsoluteKey THEN val.v ELSE abs
  IN IF ~key.ok \/ key.next > Len(s) \/ s[key.next] # ":" THEN ParseFail
     ELSE IF ~val.ok \/ val.next > Len(s) THEN ParseFail
     ELSE IF s[val.next] = "}" THEN
       [ok |-> TRUE, v |-> got, next |-> val.next + 1, str |-> <<>>]
     ELSE IF s[val.next] = "," THEN ParseMembersAt(s, val.next + 1, got)
     ELSE ParseFail

\* JSON.parse over the grammar of scalars and of flat objects with scalar
\* members, without white space. ok = FALSE stands for the SyntaxError.
\* t: the type of the parsed value; absolute: what value.absolute reads as
\* when the value is an object.
JSONParse(s) ==
  LET bad == [ok |-> FALSE, t |-> "undefined", absolute |-> JUndefined]
  IN IF s = <<>> THEN bad
     ELSE IF s[1] = "{" THEN
       IF Len(s) = 2 /\ s[2] = "}"
       THEN [ok |-> TRUE, t |-> "object", absolute |-> JUndefined]
       ELSE LET m == ParseMembersAt(s, 2, JUndefined)
            IN IF m.ok /\ m.next = Len(s) + 1
               THEN [ok |-> TRUE, t |-> "object", absolute |-> m.v]
               ELSE bad
     ELSE LET v == ParseScalarAt(s, 1)
          IN IF v.ok /\ v.next = Len(s) + 1
             THEN [ok |-> TRUE, t |-> v.v.t, absolute |-> JUndefined]
             ELSE bad

\* data.absolute on a parsed value: a TypeError on null (ok = FALSE),
\* undefined on other primitives.
ReadAbsolute(parsed) ==
  IF parsed.t = "null" THEN [ok |-> FALSE, v |-> JUndefined]
  ELSE [ok |-> TRUE, v |-> parsed.absolute]

\* ------------------------------------------------------ anchoring module
\* A stored anchor field is a string; <<>> stands for an empty or absent one.
NoAnchor == [fromRelative |-> <<>>, toRelative |-> <<>>]

\* encodeRelativePosition / decodeRelativePosition of the anchoring module.
encodeRelativePosition(rp) == Base64Encode(EncodeRelativePosition(rp))
decodeRelativePosition(encoded) == DecodeRelativePosition(BufferFromBase64(encoded))

\* y-prosemirror's absolutePositionToRelativePosition(pos, fragment, mapping),
\* over a fragment taken as a flat list of position units.
absolutePositionToRelativePosition(pos, frag) ==
  CreateRelativePositionFromTypeIndex(frag, FragmentName, pos)

\* A raw offset as relativePositionToAbsolutePosition returns it: a number
\* or null.
RawNull == [isNull |-> TRUE, n |-> 0]
Raw(n) == [isNull |-> FALSE, n |-> n]

\* y-prosemirror's relativePositionToAbsolutePosition(doc, fragment, relPos,
\* mapping): null when the position is unknown or lies in another type.
\* threw: the library call threw.
relativePositionToAbsolutePosition(frag, rp) ==
  LET abs == CreateAbsolutePositionFromRelativePosition(rp, frag, FragmentName)
  IN IF abs.kind = "throw" THEN [threw |-> TRUE, raw |-> RawNull]
     ELSE IF abs.kind = "null" \/ ~abs.onRoot THEN [threw |-> FALSE, raw |-> RawNull]
     ELSE [threw |-> FALSE, raw |-> Raw(abs.index)]

\* createCommentAnchor(yXmlFragment, state, from, to); threw: yXmlFragment.doc
\* is missing and nothing catches the TypeError.
createCommentAnchor(docPresent, frag, from, to) ==
  IF ~docPresent THEN [threw |-> TRUE, anchor |-> NoAnchor]
  ELSE [threw |-> FALSE,
        anchor |->
          [fromRelative |->
             encodeRelativePosition(absolutePositionToRelativePosition(from, frag)),
           toRelative |->
             encodeRelativePosition(absolutePositionToRelativePosition(to, frag))]]

InvalidAnchor == [from |-> 0, to |-> 0, isValid |-> FALSE]

\* resolveCommentAnchor without the clamp to the document bounds.
NormalizeResolvedNoClamp(from, to, docSize) ==
  IF from.isNull \/ to.isNull \/ from.n < 0 \/ to.n < 0
  THEN InvalidAnchor
  ELSE [from |-> Min(from.n, to.n), to |-> Max(from.n, to.n), isValid |-> TRUE]

\* resolveCommentAnchor whose validity check looks at the start position only.
NormalizeResolvedFromOnly(from, to, docSize) ==
  IF from.isNull \/ from.n < 0
  THEN InvalidAnchor
  ELSE [from |-> Max(0, Min(Min(from.n, to.n), docSize)),
        to |-> Max(0, Min(Max(from.n, to.n), docSize)),
        isValid |-> TRUE]

\* Lines 80-95 of resolveCommentAnchor: the validity check, the ordering and
\* the clamp, on the two raw offsets.
NormalizeResolved(from, to, docSize) ==
  IF from.isNull \/ to.isNull \/ from.n < 0 \/ to.n < 0
  THEN InvalidAnchor
  ELSE LET validFrom == Min(from.n, to.n)
           validTo == Max(from.n, to.n)
       IN [from |-> Max(0, Min(validFrom, docSize)),
           to |-> Max(0, Min(validTo, docSize)),
           isValid |-> TRUE]

\* resolveCommentAnchor without its catch clause: the exception escapes.
resolveCommentAnchorNoCatch(body) ==
  [threw |-> body.threw, caught |-> FALSE, res |-> body.res]

\* The catch clause of resolveCommentAnchor: body is the outcome of the try
\* block, [threw, res].
resolveCommentAnchorCatch(body) ==
  IF body.threw THEN [threw |-> FALSE, caught |-> TRUE, res |-> InvalidAnchor]
  ELSE [threw |-> FALSE, caught |-> FALSE, res |-> body.res]

\* resolveCommentAnchor where the two library resolutions have the outcomes
\* from and to (libThrew: one of the calls in the try block threw).
resolveCommentAnchorWith(libThrew, from, to, docSize) ==
  resolveCommentAnchorCatch(
    IF libThrew THEN [threw |-> TRUE, res |-> InvalidAnchor]
    ELSE [threw |-> FALSE, res |-> NormalizeResolved(from, to, docSize)])

\* resolveCommentAnchor(yXmlFragment, state, anchor) on a fragment.
resolveCommentAnchor(docPresent, frag, docSize, anchor) ==
  LET f == decodeRelativePosition(anchor.fromRelative)
      t == decodeRelativePosition(anchor.toRelative)
      rf == relativePositionToAbsolutePosition(frag, f.rp)
      rt == relativePositionToAbsolutePosition(frag, t.rp)
  IN IF ~docPresent \/ ~f.ok \/ ~t.ok
     THEN resolveCommentAnchorWith(TRUE, RawNull, RawNull, docSize)
     ELSE resolveCommentAnchorWith(rf.threw \/ rt.threw, rf.raw, rt.raw, docSize)

\* createFallbackAnchor storing the two offsets in each other's field.
createFallbackAnchorSwapped(from, to) ==
  [fromRelative |-> StringifyAbsolute(to), toRelative |-> StringifyAbsolute(from)]

\* createFallbackAnchor(from, to)
createFallbackAnchor(from, to) ==
  [fromRelative |-> StringifyAbsolute(from), toRelative |-> StringifyAbsolute(to)]

InvalidFallback == [from |-> JNum(0), to |-> JNum(0), isValid |-> FALSE]

\* The try block of resolveFallbackAnchor: [threw, returned, res]; returned
\* tells whether the block reached its return statement.
resolveFallbackAnchorTry(anchor) ==
  LET fromData == JSONParse(anchor.fromRelative)
      toData == JSONParse(anchor.toRelative)
      fa == ReadAbsolute(fromData)
      ta == ReadAbsolute(toData)
      none == [threw |-> FALSE, returned |-> FALSE, res |-> InvalidFallback]
  IN IF ~fromData.ok \/ ~toData.ok \/ ~fa.ok THEN [none EXCEPT !.threw = TRUE]
     ELSE IF fa.v.t = "undefined" THEN none
     ELSE IF ~ta.ok THEN [none EXCEPT !.threw = TRUE]
     ELSE IF ta.v.t = "undefined" THEN none
     ELSE [threw |-> FALSE, returned |-> TRUE,
           res |-> [from |-> fa.v, to |-> ta.v, isValid |-> TRUE]]

\* The empty catch clause of resolveFallbackAnchor and the return after it.
resolveFallbackAnchorCatch(body) ==
  IF body.threw \/ ~body.returned
  THEN [threw |-> FALSE, caught |-> body.threw, res |-> InvalidFallback]
  ELSE [threw |-> FALSE, caught |-> FALSE, res |-> body.res]

resolveFallbackAnchor(anchor) ==
  resolveFallbackAnchorCatch(resolveFallbackAnchorTry(anchor))

\* isFallbackAnchor whose catch clause answers true.
isFallbackAnchorCatchTrue(body) ==
  IF body.threw THEN [threw |-> FALSE, caught |-> TRUE, res |-> TRUE]
  ELSE [threw |-> FALSE, caught |-> FALSE, res |-> body.res]

\* The catch clause of isFallbackAnchor.
isFallbackAnchorCatch(body) ==
  IF body.threw THEN [threw |-> FALSE, caught |-> TRUE, res |-> FALSE]
  ELSE [threw |-> FALSE, caught |-> FALSE, res |-> body.res]

\* isFallbackAnchor(anchor)
isFallbackAnchor(anchor) ==
  LET fromData == JSONParse(anchor.fromRelative)
      fa == ReadAbsolute(fromData)
  IN isFallbackAnchorCatch(
       IF ~fromData.ok \/ ~fa.ok THEN [threw |-> TRUE, res |-> FALSE]
       ELSE [threw |-> FALSE, res |-> fa.v.t # "undefined"])

\* ------------------------------------------------------- useComments hook
uint8ArrayToBase64(bytes) == Base64Encode(bytes)
base64ToUint8Array(base64) == Atob(base64)

\* addComment anchoring both ends at the selection's start.
addCommentAnchorDataStartOnly(hasYjs, yt, selectionFrom, selectionTo) ==
  IF hasYjs
  THEN [fromRelative |->
          uint8ArrayToBase64(EncodeRelativePosition(
            CreateRelativePositionFromTypeIndex(yt, ContentName, selectionFrom))),
        toRelative |->
          uint8ArrayToBase64(EncodeRelativePosition(
            CreateRelativePositionFromTypeIndex(yt, ContentName, selectionFrom)))]
  ELSE NoAnchor

\* The anchor data addComment computes before it posts the comment: relative
\* positions of the two selection offsets in the Y.Text 'content', when the
\* hook holds a Yjs document.
addCommentAnchorData(hasYjs, yt, selectionFrom, selectionTo) ==
  IF hasYjs
  THEN [fromRelative |->
          uint8ArrayToBase64(EncodeRelativePosition(
            CreateRelativePositionFromTypeIndex(yt, ContentName, selectionFrom))),
        toRelative |->
          uint8ArrayToBase64(EncodeRelativePosition(
            CreateRelativePositionFromTypeIndex(yt, ContentName, selectionTo)))]
  ELSE NoAnchor

\* The try block of resolveCommentPositions: [threw, returned, from, to].
resolveCommentPositionsTry(yt, comment) ==
  LET fb == base64ToUint8Array(comment.fromRelative)
      tb == base64ToUint8Array(comment.toRelative)
      fr == DecodeRelativePosition(fb.bytes)
      tr == DecodeRelativePosition(tb.bytes)
      fromAbsPos == CreateAbsolutePositionFromRelativePosition(fr.rp, yt, ContentName)
      toAbsPos == CreateAbsolutePositionFromRelativePosition(tr.rp, yt, ContentName)
      none == [threw |-> FALSE, returned |-> FALSE, from |-> 0, to |-> 0]
  IN IF ~fb.ok \/ ~fr.ok \/ ~tb.ok \/ ~tr.ok THEN [none EXCEPT !.threw = TRUE]
     ELSE IF fromAbsPos.kind = "throw" \/ toAbsPos.kind = "throw"
       THEN [none EXCEPT !.threw = TRUE]
     ELSE IF fromAbsPos.kind = "abs" /\ toAbsPos.kind = "abs"
             /\ fromAbsPos.onRoot /\ toAbsPos.onRoot
       THEN [threw |-> FALSE, returned |-> TRUE,
             from |-> fromAbsPos.index, to |-> toAbsPos.index]
     ELSE none

\* The catch clause of resolveCommentPositions and the fallback return after
\* it. viaYjs: the result comes from the relative positions.
resolveCommentPositionsCatch(body, comment) ==
  IF body.threw \/ ~body.returned
  THEN [threw |-> FALSE, caught |-> body.threw, viaYjs |-> FALSE, tried |-> TRUE,
        from |-> comment.selectionFrom, to |-> comment.selectionTo]
  ELSE [threw |-> FALSE, caught |-> FALSE, viaYjs |-> TRUE, tried |-> TRUE,
        from |-> body.from, to |-> body.to]

\* resolveCommentPositions entering its try block whenever the hook holds a
\* Yjs document, whether or not the comment carries relative positions.
resolveCommentPositionsAlwaysTry(hasYjs, yt, comment) ==
  IF hasYjs
  THEN resolveCommentPositionsCatch(resolveCommentPositionsTry(yt, comment), comment)
  ELSE [threw |-> FALSE, caught |-> FALSE, viaYjs |-> FALSE, tried |-> FALSE,
        from |-> comment.selectionFrom, to |-> comment.selectionTo]

\* resolveCommentPositions(comment); tried: the try block was entered.
resolveCommentPositions(hasYjs, yt, comment) ==
  IF hasYjs /\ comment.fromRelative # <<>> /\ comment.toRelative # <<>>
  THEN resolveCommentPositionsCatch(resolveCommentPositionsTry(yt, comment), comment)
  ELSE [threw |-> FALSE, caught |-> FALSE, viaYjs |-> FALSE, tried |-> FALSE,
        from |-> comment.selectionFrom, to |-> comment.selectionTo]

\* getResolvedComments on one comment: the comment with its range replaced
\* by the resolved one.
WithResolvedRange(hasYjs, yt, comment) ==
  LET res == resolveCommentPositions(hasYjs, yt, comment)
  IN [comment EXCEPT !.selectionFrom = res.from, !.selectionTo = res.to]

\* ------------------------------------------------------ the document page
\* commentMarks: one mark per comment that is not resolved, in list order.
RECURSIVE commentMarks(_)
commentMarks(cs) ==
  IF cs = <<>> THEN <<>>
  ELSE (IF Head(cs).isResolved THEN <<>>
        ELSE << [id |-> Head(cs).id, from |-> Head(cs).selectionFrom,
                 to |-> Head(cs).selectionTo] >>)
       \o commentMarks(Tail(cs))

\* ------------------------------------------------------------- the editor
\* syncToYjs stopping after the delete: the half-applied replacement.
syncToYjsDeleteOnly(text, yt) ==
  IF YToString(yt) # text
  THEN YDeleteAll(yt)
  ELSE yt

\* syncToYjs without the comparison of line 51: it always transacts.
syncToYjsAlways(text, yt) == YInsertAtStart(YDeleteAll(yt), text)

\* syncToYjs(editor, yjsSetup): the tracked text is replaced as a whole, in
\* one transaction, when it differs from the editor's text.
syncToYjs(text, yt) ==
  IF YToString(yt) # text
  THEN YInsertAtStart(YDeleteAll(yt), text)
  ELSE yt

\* state.doc.content.size of a document of one paragraph holding text.
DocSize(text) == Len(text) + 2

\* applyHighlights: with no marks it returns at once and the highlights in
\* the document stay; otherwise they are all removed and every mark whose
\* clamped range is not empty is added.
applyHighlights(marks, docSize, highlights) ==
  IF Len(marks) = 0 THEN highlights
  ELSE { [id |-> marks[i].id, from |-> Max(0, marks[i].from),
          to |-> Min(docSize, marks[i].to)] :
           i \in { j \in 1..Len(marks) :
                     Max(0, marks[j].from) < Min(docSize, marks[j].to) } }

\* ------------------------------------------------------------ the AI route
\* What a provider's endpoint does with a request: "text", a completion
\* with content; "blank", a completion whose content is missing or white
\* space; "status", a response that is not ok; "network", fetch rejects.
ProviderOutcomes == {"text", "blank", "status", "network"}

\* callGroqAPI / callOpenAIAPI: the trimmed content, or null.
callGroqAPI(outcome) == IF outcome = "text" THEN "text" ELSE Null
callOpenAIAPI(outcome) == IF outcome = "text" THEN "text" ELSE Null

RouteResponse(status, provider, mock, calledGroq, calledOpenAI) ==
  [status |-> status, provider |-> provider, mock |-> mock,
   calledGroq |-> calledGroq, calledOpenAI |-> calledOpenAI]

\* POST trying OpenAI before Groq.
POSTOpenAIFirst(bodyOk, hasText, groqKey, openaiKey, groq, openai) ==
  IF ~bodyOk THEN RouteResponse(500, "none", FALSE, FALSE, FALSE)
  ELSE IF ~hasText THEN RouteResponse(400, "none", FALSE, FALSE, FALSE)
  ELSE IF openaiKey /\ callOpenAIAPI(openai) # Null
    THEN RouteResponse(200, "openai", FALSE, FALSE, TRUE)
  ELSE IF groqKey /\ callGroqAPI(groq) # Null
    THEN RouteResponse(200, "groq", FALSE, TRUE, openaiKey)
  ELSE RouteResponse(200, "none", TRUE, groqKey, openaiKey)

\* POST(req): bodyOk, req.json() resolves; hasText, the body has a text;
\* groqKey / openaiKey, the environment variable is set and not empty;
\* groq / openai, what the provider does when it is called.
POST(bodyOk, hasText, groqKey, openaiKey, groq, openai) ==
  IF ~bodyOk THEN RouteResponse(500, "none", FALSE, FALSE, FALSE)
  ELSE IF ~hasText THEN RouteResponse(400, "none", FALSE, FALSE, FALSE)
  ELSE IF groqKey /\ callGroqAPI(groq) # Null
    THEN RouteResponse(200, "groq", FALSE, TRUE, FALSE)
  ELSE IF openaiKey /\ callOpenAIAPI(openai) # Null
    THEN RouteResponse(200, "openai", FALSE, groqKey, TRUE)
  ELSE RouteResponse(200, "none", TRUE, groqKey, openaiKey)

\* ------------------------------------------------------ the Yjs registry
\* Document ids, and states importYjsState applies (the number of items the
\* update brings).
DocIds == {"d1", "d2"}
ImportStates == {1, 2}

\* The registry: docs is the Map yjsDocuments (0: no entry, else the number
\* of the cached instance); instances are the Y.Docs created so far, in
\* order of creation.
EmptyRegistry == [docs |-> [id \in DocIds |-> 0], instances |-> <<>>]

\* new Y.Doc() for the document id.
NewDoc(id) == [id |-> id, destroyed |-> FALSE, items |-> 0]

\* getYjsDocument(documentId): [reg, got], the registry afterwards and the
\* number of the instance returned.
getYjsDocument(reg, id) ==
  IF reg.docs[id] # 0 THEN [reg |-> reg, got |-> reg.docs[id]]
  ELSE [reg |-> [docs |-> [reg.docs EXCEPT ![id] = Len(reg.instances) + 1],
                 instances |-> Append(reg.instances, NewDoc(id))],
        got |-> Len(reg.instances) + 1]

\* destroyYjsDocument that destroys the instance and keeps its cache entry.
destroyYjsDocumentKeepEntry(reg, id) ==
  IF reg.docs[id] # 0
  THEN [reg EXCEPT !.instances[reg.docs[id]].destroyed = TRUE]
  ELSE reg

\* destroyYjsDocument(documentId)
destroyYjsDocument(reg, id) ==
  IF reg.docs[id] # 0
  THEN [docs |-> [reg.docs EXCEPT ![id] = 0],
        instances |-> [reg.instances EXCEPT ![reg.docs[id]].destroyed = TRUE]]
  ELSE reg

\* importYjsState(documentId, state): the update is applied to the
\* document of the id; items it already holds are not added again.
importYjsState(reg, id, state) ==
  LET g == getYjsDocument(reg, id)
  IN [g.reg EXCEPT !.instances[g.got].items = Max(@, state)]

\* ---------------------------------------------------------------- state
VARIABLES
  editorText,         \* editor.state.doc.textContent
  initialContentSet,  \* Editor's initialContentSet ref
  ytext,              \* the item list of the Editor's Y.Text 'content'
  yjsRef,             \* useComments' yjsRef.current is set
  comments,           \* useComments' comments state, newest first
  created,            \* per comment: tracked length and state when it was added
  lastEdit,           \* the last transaction on the tracked text
  edits,              \* number of editing transactions so far
  resolved,           \* what the last getResolvedComments call returned
  resolvedFresh,      \* nothing has changed since that call
  call,               \* the last direct call of a library function, with its result
  docDestroyed,       \* the Editor has unmounted and destroyed its Y.Doc
  usedDestroyed,      \* the hook has read the Y.Doc after it was destroyed
  registry,           \* yjs-manager's cache and the Y.Docs it has created
  regCall,            \* the last call of a registry function
  pageDoc,            \* useDocument's document: its content, or NoDoc
  pageContent,        \* DocumentPage's content state
  hasContentChanged,  \* DocumentPage's hasContentChanged state
  saveTimer,          \* the debounce timer: the content its saveDocument holds
  savesInFlight,      \* the contents of the PATCH requests not answered yet
  sentContents,       \* the contents handed to updateDocument so far
  editorDoc,          \* the page's editor document
  hasSetInitialContent, \* Editor's hasSetInitialContent ref
  setContentCalls,    \* times the content effect called editor.commands.setContent
  pageEdits,          \* number of user edits in the page's editor
  menuState,          \* AIBubbleMenu's menuState
  selectionRange,     \* AIBubbleMenu's selectionRange: a selection, or NoRange
  suggestion,         \* AIBubbleMenu's suggestion is not empty
  dropdownOpen,       \* AIBubbleMenu's dropdownOpen
  isInteracting,      \* AIBubbleMenu's isInteractingRef.current
  blurTimers,         \* pending blur timeouts: the state each one closed over
  aiRequests,         \* number of /api/ai requests not answered yet
  menuEvent,          \* the handler of the menu that ran last
  pageComments,       \* the page's comments: id, stored range, isResolved
  highlights,         \* the commentHighlight marks in the editor document
  highlightTimer,     \* the 100 ms timer: the marks its applyHighlights holds
  highlightsApplied,  \* applyHighlights was the last thing that ran
  commentOps          \* number of changes of the page's comments so far

vars == << editorText, initialContentSet, ytext, yjsRef, comments, created,
           lastEdit, edits, resolved, resolvedFresh, call, docDestroyed,
           usedDestroyed, registry, regCall, pageDoc, pageContent,
           hasContentChanged, saveTimer, savesInFlight, sentContents, editorDoc,
           hasSetInitialContent, setContentCalls, pageEdits, menuState,
           selectionRange, suggestion, dropdownOpen, isInteracting, blurTimers,
           aiRequests, menuEvent, pageComments, highlights, highlightTimer,
           highlightsApplied, commentOps >>

lifeVars == << docDestroyed, usedDestroyed >>
registryVars == << registry, regCall >>
pageVars == << pageDoc, pageContent, hasContentChanged, saveTimer, savesInFlight,
              sentContents, editorDoc, hasSetInitialContent, setContentCalls,
              pageEdits >>
menuVars == << menuState, selectionRange, suggestion, dropdownOpen, isInteracting,
              blurTimers, aiRequests, menuEvent >>
highlightVars == << pageComments, highlights, highlightTimer, highlightsApplied,
                   commentOps >>
uiVars == << pageVars, menuVars, highlightVars >>
NoRegCall == [fn |-> "none", id |-> "d1", got |-> 0, before |-> EmptyRegistry]

\* ------------------------------------------------------ the document page
\* Most user edits in the page's editor, and most PATCH requests in flight.
MaxEdits == 3
MaxInFlight == 2

\* Contents are numbered: EmptyContent is '' (a new document), LoadedContent
\* what the first fetch brings, LoadedContent + n the editor's JSON after
\* the n-th user edit. NoDoc: the document is null. NoTimer: no timer is set.
EmptyContent == 0
LoadedContent == 1
NoDoc == -1
NoTimer == -1

\* The Editor's content effect applying every change of the content prop.
contentEffectAlways(content, doc, isSet, calls) ==
  IF content # EmptyContent
  THEN [doc |-> content, isSet |-> TRUE, calls |-> calls + 1]
  ELSE [doc |-> doc, isSet |-> isSet, calls |-> calls]

\* The Editor's content effect: content is the prop, doc the editor's
\* document, isSet the ref, calls the number of setContent calls so far.
contentEffect(content, doc, isSet, calls) ==
  IF content # EmptyContent /\ ~isSet
  THEN [doc |-> content, isSet |-> TRUE, calls |-> calls + 1]
  ELSE [doc |-> doc, isSet |-> isSet, calls |-> calls]

\* The page's doc effect: setContent(doc.content) when it is not empty.
docEffect(doc, content) == IF doc # EmptyContent THEN doc ELSE content

\* The debounce effect after a render: the timer it leaves set, holding the
\* saveDocument of that render (the title is the loaded one throughout).
debounceEffect(doc, changed, content) ==
  IF doc = NoDoc THEN NoTimer
  ELSE IF ~changed THEN NoTimer
  ELSE content

InitPage ==
  /\ pageDoc = NoDoc
  /\ pageContent = EmptyContent
  /\ hasContentChanged = FALSE
  /\ saveTimer = NoTimer
  /\ savesInFlight = <<>>
  /\ sentContents = {}
  /\ editorDoc = EmptyContent
  /\ hasSetInitialContent = FALSE
  /\ setContentCalls = 0
  /\ pageEdits = 0

\* ------------------------------------------------------ the AI bubble menu
\* Most /api/ai requests in flight.
MaxRequests == 2
\* selectionRange is null.
NoRange == Null

InitMenu ==
  /\ menuState = "hidden"
  /\ selectionRange = NoRange
  /\ suggestion = FALSE
  /\ dropdownOpen = FALSE
  /\ isInteracting = FALSE
  /\ blurTimers = {}
  /\ aiRequests = 0
  /\ menuEvent = "none"

\* ------------------------------------------------- the comment highlights
\* Most comments on the page, and most changes of the comments.
MaxComments == 2
MaxCommentOps == 4
\* editor.state.doc.content.size of the page's document.
HighlightDocSize == 5
\* No highlight timer is set.
NoMarks == << [id |-> 0, from |-> 0, to |-> 0] >>

InitHighlights ==
  /\ pageComments = <<>>
  /\ highlights = {}
  /\ highlightTimer = NoMarks
  /\ highlightsApplied = FALSE
  /\ commentOps = 0

InitUi ==
  /\ InitPage
  /\ InitMenu
  /\ InitHighlights

NoEdit == [kind |-> "none", p |-> 0, k |-> 0]
NoCall == [fn |-> "none"]

\* Contents a loaded document brings, and texts typed or pasted in one step.
InitialContents == { <<"a", "b">>, <<"a", "b", "a">> }
InsertTexts == { <<"a">>, <<"b", "b">> }

Init ==
  /\ editorText = <<>>
  /\ initialContentSet = FALSE
  /\ ytext = <<>>
  /\ yjsRef = FALSE
  /\ comments = <<>>
  /\ created = <<>>
  /\ lastEdit = NoEdit
  /\ edits = 0
  /\ resolved = <<>>
  /\ resolvedFresh = FALSE
  /\ call = NoCall
  /\ docDestroyed = FALSE
  /\ usedDestroyed = FALSE
  /\ registry = EmptyRegistry
  /\ regCall = NoRegCall
  /\ InitUi

\* A transaction changed the tracked text: every comment has seen one more.
Touch(hist, changed) ==
  [i \in 1..Len(hist) |->
     [hist[i] EXCEPT !.editsSince = IF changed THEN @ + 1 ELSE @]]

\* The editor's text becomes text by an edit of the given kind, and the
\* editor syncs it to Yjs (onUpdate, or the content effect).
Transaction(text, kind, p, k) ==
  /\ ~docDestroyed
  /\ editorText' = text
  /\ ytext' = syncToYjs(text, ytext)
  /\ created' = Touch(created, ytext' # ytext)
  /\ lastEdit' = [kind |-> kind, p |-> p, k |-> k]
  /\ resolved' = <<>>
  /\ resolvedFresh' = FALSE
  /\ UNCHANGED << lifeVars, registryVars, uiVars >>

\* The content effect: the content prop is applied once, then synced.
SetContent ==
  \E content \in InitialContents :
    /\ ~initialContentSet
    /\ initialContentSet' = TRUE
    /\ Transaction(content, "set", 0, 0)
    /\ UNCHANGED << yjsRef, comments, edits, call >>

\* The user inserts text at offset p (typing, paste); onUpdate runs.
InsertAt(texts, maxLen) ==
  \E s \in texts, p \in 0..Len(editorText) :
    /\ edits + Len(comments) < MaxOps
    /\ Len(editorText) + Len(s) <= maxLen
    /\ edits' = edits + 1
    /\ Transaction(Take(editorText, p) \o s \o Drop(editorText, p), "insert", p, Len(s))
    /\ UNCHANGED << initialContentSet, yjsRef, comments, call >>

EditorInsert == InsertAt(InsertTexts, MaxDocLen)

\* The user deletes the k characters from offset p on; onUpdate runs.
EditorDelete ==
  \E p \in 0..(Len(editorText) - 1) :
    \E k \in 1..(Len(editorText) - p) :
      /\ edits + Len(comments) < MaxOps
      /\ edits' = edits + 1
      /\ Transaction(Take(editorText, p) \o Drop(editorText, p + k), "delete", p, k)
      /\ UNCHANGED << initialContentSet, yjsRef, comments, call >>

\* onYjsReady hands the Editor's document to the hook.
setYjsDocument ==
  /\ ~yjsRef
  /\ ~docDestroyed
  /\ yjsRef' = TRUE
  /\ resolved' = <<>>
  /\ resolvedFresh' = FALSE
  /\ UNCHANGED << editorText, initialContentSet, ytext, comments, created,
                  lastEdit, edits, call, lifeVars, registryVars, uiVars >>

\* The Editor unmounts: its cleanup effect destroys the Y.Doc and clears
\* the Editor's own ref. The hook is not told.
EditorUnmount ==
  /\ ~docDestroyed
  /\ docDestroyed' = TRUE
  /\ resolved' = <<>>
  /\ resolvedFresh' = FALSE
  /\ UNCHANGED << editorText, initialContentSet, ytext, yjsRef, comments, created,
                  lastEdit, edits, call, usedDestroyed, registryVars, uiVars >>

\* addComment over the selection [selectionFrom, selectionTo]; the server
\* stores the comment and returns it (ok), or the request fails.
addComment ==
  \E selectionTo \in 0..DocSize(editorText), ok \in BOOLEAN :
    \E selectionFrom \in 0..selectionTo :
      LET anchorData == addCommentAnchorData(yjsRef, ytext, selectionFrom, selectionTo)
          data == [selectionFrom |-> selectionFrom, selectionTo |-> selectionTo,
                   fromRelative |-> anchorData.fromRelative,
                   toRelative |-> anchorData.toRelative]
      IN /\ edits + Len(comments) < MaxOps
         /\ comments' = IF ok THEN <<data>> \o comments ELSE comments
         /\ created' = IF ok
                       THEN << [len |-> YLength(ytext), anchored |-> yjsRef,
                                editsSince |-> 0] >> \o created
                       ELSE created
         /\ resolved' = <<>>
         /\ resolvedFresh' = FALSE
         /\ usedDestroyed' = (usedDestroyed \/ (yjsRef /\ docDestroyed))
         /\ UNCHANGED << editorText, initialContentSet, ytext, yjsRef, lastEdit,
                         edits, call, docDestroyed, registryVars, uiVars >>

\* getResolvedComments(): every comment with its resolved range.
getResolvedComments ==
  /\ ~resolvedFresh
  /\ resolved' = [i \in 1..Len(comments) |->
                    resolveCommentPositions(yjsRef, ytext, comments[i])]
  /\ resolvedFresh' = TRUE
  /\ usedDestroyed' =
       (usedDestroyed \/ (docDestroyed /\ \E i \in 1..Len(comments) :
                            resolveCommentPositions(yjsRef, ytext, comments[i]).tried))
  /\ UNCHANGED << editorText, initialContentSet, ytext, yjsRef, comments,
                  created, lastEdit, edits, call, docDestroyed, registryVars, uiVars >>

Next ==
  \/ SetContent
  \/ EditorInsert
  \/ EditorDelete
  \/ setYjsDocument
  \/ EditorUnmount
  \/ addComment
  \/ getResolvedComments

Spec == Init /\ [][Next]_vars

\* ------------------------------------------------- the registry's callers
editorVars == << editorText, initialContentSet, ytext, yjsRef, comments, created,
                lastEdit, edits, resolved, resolvedFresh, call, lifeVars, uiVars >>

\* A registry function is called; calls are counted by the instances made.
RegistryCall(fn, id, reg, got) ==
  /\ Len(reg.instances) <= MaxInstances
  /\ registry' = reg
  /\ regCall' = [fn |-> fn, id |-> id, got |-> got, before |-> registry]
  /\ UNCHANGED editorVars

GetYjsDocument ==
  \E id \in DocIds :
    LET g == getYjsDocument(registry, id)
    IN RegistryCall("getYjsDocument", id, g.reg, g.got)

DestroyYjsDocument ==
  \E id \in DocIds :
    RegistryCall("destroyYjsDocument", id, destroyYjsDocument(registry, id), 0)

ImportYjsState ==
  \E id \in DocIds, state \in ImportStates :
    RegistryCall("importYjsState", id, importYjsState(registry, id, state), 0)

NextRegistry ==
  \/ GetYjsDocument
  \/ DestroyYjsDocument
  \/ ImportYjsState

SpecRegistry == Init /\ [][NextRegistry]_vars

\* ------------------------------------------- direct calls of the functions
\* Tracked documents: every pattern of live items and tombstones.
RECURSIVE ItemLists(_)
ItemLists(n) ==
  IF n = 0 THEN { <<>> }
  ELSE ItemLists(n - 1) \cup
       { Append(yt, [clock |-> Len(yt), ch |-> "a", deleted |-> d]) :
           yt \in { l \in ItemLists(n - 1) : Len(l) = n - 1 }, d \in BOOLEAN }
SampleDocs == ItemLists(MaxItems)

\* Stored anchor strings: absent, outside the base64 alphabet, base64 of the
\* wrong length, base64 of bytes that are no relative position, encoded
\* relative positions (known item, unknown item, root types), fallback
\* payloads and other JSON.
SampleStrings ==
  { <<>>, <<"!", "!">>, <<"A">>, <<"a", "b">>, <<"A", "A", "=", "=">>,
    <<"n", "u", "l", "l">>, <<"{", "}">>, <<"5">>,
    Base64Encode(EncodeRelativePosition(RelItem(ClientID, 0, 0))),
    Base64Encode(EncodeRelativePosition(RelItem(ClientID, 1, 0))),
    Base64Encode(EncodeRelativePosition(RelItem(ClientID, MaxItems + 4, 0))),
    Base64Encode(EncodeRelativePosition(RelTname(ContentName, 0))),
    Base64Encode(EncodeRelativePosition(RelTname(FragmentName, 0))),
    StringifyAbsolute(1), StringifyAbsolute(3) }
SampleAnchors ==
  { [fromRelative |-> f, toRelative |-> t] : f \in SampleStrings, t \in SampleStrings }

\* Stored payloads around the fallback shape {"absolute": n}: the shape
\* itself, text that is no JSON, JSON scalars, objects without the member,
\* and objects whose member is no non-negative integer.
ShapeStrings ==
  { StringifyAbsolute(0), StringifyAbsolute(2), StringifyAbsolute(MaxOffset),
    <<>>, <<"a", "b">>, <<"5">>, <<"n", "u", "l", "l">>, <<"{", "}">>,
    <<"{", "\"", "x", "\"", ":", "1", "}">>,
    StringifyAbsolute(-1),
    <<"{", "\"">> \o AbsoluteKey \o <<"\"", ":", "n", "u", "l", "l", "}">>,
    <<"{", "\"">> \o AbsoluteKey \o <<"\"", ":", "\"", "x", "\"", "}">>,
    Base64Encode(EncodeRelativePosition(RelItem(ClientID, 0, 0))) }

RawOffsets == { RawNull } \cup { Raw(n) : n \in (-2)..MaxRaw }

mainVars == << editorText, initialContentSet, ytext, yjsRef, comments, created,
              lastEdit, edits, resolved, resolvedFresh, lifeVars, registryVars, uiVars >>

\* The inputs a direct call is made on: none once a call has been made.
Once(inputs) == IF call.fn = "none" THEN inputs ELSE {}

\* One call is made, from the initial state.
Calling(record) ==
  /\ call.fn = "none"
  /\ call' = record
  /\ UNCHANGED mainVars

\* resolveCommentAnchor on every pair of outcomes of the library resolution.
CallResolveRaw ==
  \E libThrew \in Once(BOOLEAN), from \in RawOffsets, to \in RawOffsets, docSize \in 0..MaxRaw :
    Calling([fn |-> "resolveCommentAnchorWith", libThrew |-> libThrew,
                from |-> from, to |-> to, docSize |-> docSize,
                out |-> resolveCommentAnchorWith(libThrew, from, to, docSize)])

\* resolveCommentAnchor on stored strings and a tracked document.
CallResolveCommentAnchor ==
  \E docPresent \in Once(BOOLEAN), frag \in SampleDocs, anchor \in SampleAnchors,
     docSize \in 0..MaxItems :
    Calling([fn |-> "resolveCommentAnchor", docPresent |-> docPresent,
                frag |-> frag, anchor |-> anchor, docSize |-> docSize,
                out |-> resolveCommentAnchor(docPresent, frag, docSize, anchor)])

\* createCommentAnchor, then resolveCommentAnchor on the unchanged document.
CallCreateResolve ==
  \E frag \in Once(SampleDocs) :
    \E to \in 0..YLength(frag) :
      \E from \in 0..to :
        LET anchor == createCommentAnchor(TRUE, frag, from, to).anchor
        IN Calling([fn |-> "createResolve", frag |-> frag, from |-> from, to |-> to,
                    anchor |-> anchor,
                    out |-> resolveCommentAnchor(TRUE, frag, YLength(frag), anchor)])

\* addComment's anchor, then resolveCommentPositions on the unchanged document.
CallHookRoundTrip ==
  \E hasYjs \in Once(BOOLEAN), yt \in SampleDocs :
    \E to \in 0..YLength(yt) :
      \E from \in 0..to :
        LET anchor == addCommentAnchorData(hasYjs, yt, from, to)
            comment == [selectionFrom |-> from, selectionTo |-> to,
                        fromRelative |-> anchor.fromRelative,
                        toRelative |-> anchor.toRelative]
        IN Calling([fn |-> "hookRoundTrip", hasYjs |-> hasYjs, yt |-> yt,
                    from |-> from, to |-> to, comment |-> comment,
                    out |-> resolveCommentPositions(hasYjs, yt, comment)])

\* Stored ranges of the comments resolved directly.
SampleSelections == { <<1, 2>>, <<0, MaxItems + 1>> }

\* resolveCommentPositions on stored strings and a tracked document.
CallResolveCommentPositions ==
  \E hasYjs \in Once(BOOLEAN), yt \in SampleDocs, anchor \in SampleAnchors,
     sel \in SampleSelections :
    LET comment == [selectionFrom |-> sel[1], selectionTo |-> sel[2],
                    fromRelative |-> anchor.fromRelative,
                    toRelative |-> anchor.toRelative]
    IN Calling([fn |-> "resolveCommentPositions", hasYjs |-> hasYjs, yt |-> yt,
                comment |-> comment,
                out |-> resolveCommentPositions(hasYjs, yt, comment)])

\* A stored comment is resolved by getResolvedComments, turned into a mark
\* and highlighted in a document that shows the tracked text.
CallHighlightComment ==
  \E yt \in Once(SampleDocs), anchor \in SampleAnchors, isResolved \in BOOLEAN :
    LET comment == [id |-> 1, selectionFrom |-> 1, selectionTo |-> 2,
                    fromRelative |-> anchor.fromRelative,
                    toRelative |-> anchor.toRelative,
                    isResolved |-> isResolved]
        listed == << WithResolvedRange(TRUE, yt, comment) >>
    IN Calling([fn |-> "highlightComment", yt |-> yt, comment |-> comment,
                listed |-> listed,
                out |-> resolveCommentPositions(TRUE, yt, comment),
                highlights |->
                  applyHighlights(commentMarks(listed), DocSize(YToString(yt)), {})])

\* createFallbackAnchor, then resolveFallbackAnchor.
CallFallbackRoundTrip ==
  \E to \in Once(0..MaxOffset) :
    \E from \in 0..to :
      LET anchor == createFallbackAnchor(from, to)
      IN Calling([fn |-> "fallbackRoundTrip", from |-> from, to |-> to,
                  anchor |-> anchor, out |-> resolveFallbackAnchor(anchor)])

CallResolveFallbackAnchor ==
  \E anchor \in Once(SampleAnchors) :
    Calling([fn |-> "resolveFallbackAnchor", anchor |-> anchor,
             out |-> resolveFallbackAnchor(anchor)])

CallIsFallbackAnchor ==
  \E anchor \in Once(SampleAnchors) :
    Calling([fn |-> "isFallbackAnchor", anchor |-> anchor,
             out |-> isFallbackAnchor(anchor)])

\* isFallbackAnchor on an anchor createFallbackAnchor made.
CallIsFallbackOfFallback ==
  \E from \in Once(0..MaxOffset), to \in 0..MaxOffset :
    LET anchor == createFallbackAnchor(from, to)
    IN Calling([fn |-> "isFallbackOfFallback", from |-> from, to |-> to,
                anchor |-> anchor, out |-> isFallbackAnchor(anchor)])

\* isFallbackAnchor on an anchor createCommentAnchor made.
CallIsFallbackOfComment ==
  \E frag \in Once(SampleDocs) :
    \E from \in 0..(YLength(frag) + 1), to \in 0..(YLength(frag) + 1) :
      LET anchor == createCommentAnchor(TRUE, frag, from, to).anchor
      IN Calling([fn |-> "isFallbackOfComment", frag |-> frag, from |-> from,
                  to |-> to, anchor |-> anchor, out |-> isFallbackAnchor(anchor)])

\* Durable positions: on an item, on a root type, in a nested type; clients
\* and clocks of one and of two bytes, associations to either side.
SamplePositions ==
  { RelItem(c, k, a) : c \in {1, ClientID}, k \in 0..MaxClock, a \in {-1, 0, 1} }
    \cup { RelType(c, k, a) : c \in {1, ClientID}, k \in {0, MaxClock}, a \in {-1, 0} }
    \cup { RelTname(n, a) : n \in {ContentName, FragmentName}, a \in {-1, 0, 1} }

\* Byte values of both halves and at both ends, in arrays of every length.
SampleByteValues == {0, 1, 127, 128, 255}
SampleBytes == UNION { [1..n -> SampleByteValues] : n \in 0..MaxBytes }

\* encodeRelativePosition then decodeRelativePosition, in the anchoring
\* module (out) and with the hook's base64 functions (hook).
CallCodecRoundTrip ==
  \E rp \in Once(SamplePositions) :
    LET stored == uint8ArrayToBase64(EncodeRelativePosition(rp))
    IN Calling([fn |-> "codecRoundTrip", rp |-> rp,
                encoded |-> encodeRelativePosition(rp),
                out |-> decodeRelativePosition(encodeRelativePosition(rp)),
                hook |-> [ok |-> base64ToUint8Array(stored).ok,
                          decoded |-> DecodeRelativePosition(
                                        base64ToUint8Array(stored).bytes)]])

\* uint8ArrayToBase64 then base64ToUint8Array.
CallBase64RoundTrip ==
  \E bytes \in Once(SampleBytes) :
    Calling([fn |-> "base64RoundTrip", bytes |-> bytes,
             encoded |-> uint8ArrayToBase64(bytes),
             out |-> base64ToUint8Array(uint8ArrayToBase64(bytes))])

\* One request to the AI route.
CallPOST ==
  \E bodyOk \in Once(BOOLEAN), hasText \in BOOLEAN, groqKey \in BOOLEAN,
     openaiKey \in BOOLEAN, groq \in ProviderOutcomes, openai \in ProviderOutcomes :
    Calling([fn |-> "POST", bodyOk |-> bodyOk, hasText |-> hasText,
             groqKey |-> groqKey, openaiKey |-> openaiKey,
             groq |-> groq, openai |-> openai,
             out |-> POST(bodyOk, hasText, groqKey, openaiKey, groq, openai)])

\* resolveFallbackAnchor on stored payloads of every shape.
CallResolveFallbackShapes ==
  \E f \in Once(ShapeStrings), t \in ShapeStrings :
    LET anchor == [fromRelative |-> f, toRelative |-> t]
    IN Calling([fn |-> "resolveFallbackShapes", anchor |-> anchor,
                out |-> resolveFallbackAnchor(anchor)])

\* createFallbackAnchor, then resolveFallbackAnchor while the document has
\* the size docSize.
CallFallbackOnDocument ==
  \E from \in Once(0..MaxRaw), to \in 0..MaxRaw, docSize \in 0..MaxRaw :
    LET anchor == createFallbackAnchor(from, to)
    IN Calling([fn |-> "fallbackOnDocument", from |-> from, to |-> to,
                docSize |-> docSize, anchor |-> anchor,
                out |-> resolveFallbackAnchor(anchor)])

NextCalls ==
  \/ CallResolveRaw
  \/ CallResolveCommentAnchor
  \/ CallCreateResolve
  \/ CallHookRoundTrip
  \/ CallResolveCommentPositions
  \/ CallHighlightComment
  \/ CallFallbackRoundTrip
  \/ CallResolveFallbackAnchor
  \/ CallIsFallbackAnchor

SpecCalls == Init /\ [][NextCalls]_vars

\* Direct calls of the anchor shape checks, the position codec and the AI route.
NextUnitCalls ==
  \/ CallIsFallbackOfFallback
  \/ CallIsFallbackOfComment
  \/ CallResolveFallbackShapes
  \/ CallFallbackOnDocument
  \/ CallCodecRoundTrip
  \/ CallBase64RoundTrip
  \/ CallPOST

SpecUnitCalls == Init /\ [][NextUnitCalls]_vars

\* ------------------------------------- the comment highlight copy handler
\* Most nodes of one fragment of a sample slice.
MaxNodes == 2

\* Marks: a mark has a type and, for commentHighlight, a comment id.
Bold == [type |-> "bold", commentId |-> 0]
Highlight(id) == [type |-> "commentHighlight", commentId |-> id]

\* Nodes: a text node has text and marks, any other node has content.
TextNode(text, marks) ==
  [isText |-> TRUE, type |-> "text", text |-> text, marks |-> marks,
   content |-> <<>>]
ElementNode(type, content) ==
  [isText |-> FALSE, type |-> type, text |-> <<>>, marks |-> <<>>,
   content |-> content]

\* Fragment.fromArray: adjacent text nodes with the same markup are joined.
RECURSIVE JoinTextNodes(_, _)
JoinTextNodes(joined, array) ==
  IF array = <<>> THEN joined
  ELSE LET node == Head(array)
           n == Len(joined)
       IN IF n > 0 /\ node.isText /\ joined[n].isText
               /\ joined[n].marks = node.marks
          THEN JoinTextNodes(
                 [joined EXCEPT ![n].text = joined[n].text \o node.text],
                 Tail(array))
          ELSE JoinTextNodes(Append(joined, node), Tail(array))
FragmentFromArray(array) == JoinTextNodes(<<>>, array)

\* node.marks.filter((mark) => mark.type.name !== 'commentHighlight')
FilterHighlightMarks(marks) ==
  SelectSeq(marks, LAMBDA mark : mark.type # "commentHighlight")

\* stripCommentHighlightsFromFragment leaving the child nodes as they are.
stripCommentHighlightsFromFragmentShallow(fragment) ==
  FragmentFromArray(
    [i \in 1..Len(fragment) |->
       LET node == fragment[i]
       IN IF node.isText
          THEN [node EXCEPT !.marks = FilterHighlightMarks(node.marks)]
          ELSE node])

RECURSIVE stripCommentHighlightsFromFragment(_)
stripCommentHighlightsFromFragment(fragment) ==
  FragmentFromArray(
    [i \in 1..Len(fragment) |->
       LET node == fragment[i]
           newMarks == FilterHighlightMarks(node.marks)
       IN IF node.isText
          THEN IF Len(newMarks) # Len(node.marks)
               THEN [node EXCEPT !.marks = newMarks]
               ELSE node
          ELSE IF Len(node.content) > 0
          THEN [node EXCEPT
                  !.content = stripCommentHighlightsFromFragment(node.content)]
          ELSE node])

\* A slice is an object: ref tells one Slice instance from another. The
\* slices handed to the plugin have ref 0, new Slice(...) makes another one.
PassedRef == 0
NewSliceRef == 1
Slice(content, openStart, openEnd, ref) ==
  [content |-> content, openStart |-> openStart, openEnd |-> openEnd,
   ref |-> ref]

stripCommentHighlightsFromSlice(slice) ==
  Slice(stripCommentHighlightsFromFragment(slice.content),
        slice.openStart, slice.openEnd, NewSliceRef)

transformCopied(slice) == stripCommentHighlightsFromSlice(slice)

\* handlePaste: handled is the value returned, dispatched tells whether
\* view.dispatch(tr) ran and replaced is what replaceSelection put in.
handlePaste(slice) ==
  LET cleanSlice == stripCommentHighlightsFromSlice(slice)
  IN IF cleanSlice.ref # slice.ref
     THEN [handled |-> TRUE, dispatched |-> TRUE, replaced |-> cleanSlice.content]
     ELSE [handled |-> FALSE, dispatched |-> FALSE, replaced |-> <<>>]

\* Sample slices: text with every combination of bold and highlights, in
\* paragraphs and in a blockquote, as the editor's schema builds them
\* (adjacent text nodes differ in their marks).
SampleMarks ==
  { <<>>, <<Bold>>, <<Highlight(1)>>, <<Bold, Highlight(1)>>,
    <<Highlight(1), Highlight(2)>> }
SampleTextNodes == { TextNode(<<"a">>, marks) : marks \in SampleMarks }

RECURSIVE FragmentsOf(_, _)
FragmentsOf(nodes, n) ==
  IF n = 0 THEN { <<>> }
  ELSE FragmentsOf(nodes, n - 1) \cup
       { Append(f, node) :
           f \in { g \in FragmentsOf(nodes, n - 1) : Len(g) = n - 1 },
           node \in nodes }

Normalised(fragment) == FragmentFromArray(fragment) = fragment

SampleInline == { f \in FragmentsOf(SampleTextNodes, MaxNodes) : Normalised(f) }
SampleBlocks ==
  { ElementNode("paragraph", f) : f \in SampleInline } \cup
  { ElementNode("blockquote", << ElementNode("paragraph", <<t>>) >>) :
      t \in SampleTextNodes }
SampleContents ==
  SampleInline \cup FragmentsOf(SampleBlocks, MaxNodes)
SampleSlices ==
  { Slice(content, open, open, PassedRef) :
      content \in SampleContents, open \in {0, 1} }

\* The plugin's transformCopied on a copied slice.
CallTransformCopied ==
  \E slice \in Once(SampleSlices) :
    Calling([fn |-> "transformCopied", slice |-> slice,
             out |-> transformCopied(slice)])

\* The plugin's handlePaste on a pasted slice.
CallHandlePaste ==
  \E slice \in Once(SampleSlices) :
    Calling([fn |-> "handlePaste", slice |-> slice,
             out |-> handlePaste(slice)])

\* Editor texts handed to syncToYjs.
SampleTexts == { <<>>, <<"a">>, <<"a", "a">>, <<"b">>, <<"a", "b">> }

\* syncToYjs on an editor text and a tracked document.
CallSyncToYjs ==
  \E text \in Once(SampleTexts), yt \in SampleDocs :
    Calling([fn |-> "syncToYjs", text |-> text, yt |-> yt,
             out |-> syncToYjs(text, yt)])

NextEditorCalls ==
  \/ CallTransformCopied
  \/ CallHandlePaste
  \/ CallSyncToYjs

SpecEditorCalls == Init /\ [][NextEditorCalls]_vars

\* ------------------------------------------- the document page's handlers
\* What is left alone by the page's handlers.
notPageVars == << editorText, initialContentSet, ytext, yjsRef, comments, created,
                 lastEdit, edits, resolved, resolvedFresh, call, lifeVars,
                 registryVars, menuVars, highlightVars >>

\* A render of the page: the content prop reaches the Editor's content
\* effect and the debounce effect runs again.
PageRenders(doc, content, changed, edited) ==
  LET ed == contentEffect(content, edited, hasSetInitialContent, setContentCalls)
  IN /\ pageDoc' = doc
     /\ pageContent' = content
     /\ hasContentChanged' = changed
     /\ editorDoc' = ed.doc
     /\ hasSetInitialContent' = ed.isSet
     /\ setContentCalls' = ed.calls
     /\ saveTimer' = debounceEffect(doc, changed, content)
     /\ UNCHANGED notPageVars

\* fetchDocument's response arrives: the document is set, the page's doc
\* effect copies its content and the Editor is rendered.
FetchDocumentResponds ==
  \E data \in {EmptyContent, LoadedContent} :
    /\ pageDoc = NoDoc
    /\ PageRenders(data, docEffect(data, pageContent), hasContentChanged, editorDoc)
    /\ UNCHANGED << savesInFlight, sentContents, pageEdits >>

\* The user edits the document: onUpdate hands the editor's JSON to
\* handleContentUpdate.
EditorUpdate ==
  LET newContent == LoadedContent + pageEdits + 1
  IN /\ pageDoc # NoDoc
     /\ pageEdits < MaxEdits
     /\ pageEdits' = pageEdits + 1
     /\ PageRenders(pageDoc, newContent, TRUE, newContent)
     /\ UNCHANGED << savesInFlight, sentContents >>

\* The debounce timer fires: saveDocument calls updateDocument with the
\* content of its render; setIsSaving(true) renders the page again.
SaveTimerFires ==
  /\ saveTimer # NoTimer
  /\ Len(savesInFlight) < MaxInFlight
  /\ sentContents' = sentContents \cup {saveTimer}
  /\ savesInFlight' = Append(savesInFlight, saveTimer)
  /\ PageRenders(pageDoc, pageContent, hasContentChanged, editorDoc)
  /\ UNCHANGED pageEdits

\* A PATCH request is answered. ok: the hook sets the document it returns
\* (the saved content), saveDocument resets hasContentChanged and the doc
\* effect copies the document's content. Otherwise updateDocument throws,
\* saveDocument catches and the page renders again.
SaveResponds ==
  \E i \in 1..Len(savesInFlight), ok \in BOOLEAN :
    LET data == savesInFlight[i]
    IN /\ savesInFlight' = Take(savesInFlight, i - 1) \o Drop(savesInFlight, i)
       /\ IF ok
          THEN PageRenders(data, docEffect(data, pageContent), FALSE, editorDoc)
          ELSE PageRenders(pageDoc, pageContent, hasContentChanged, editorDoc)
       /\ UNCHANGED << sentContents, pageEdits >>

NextPage ==
  \/ FetchDocumentResponds
  \/ EditorUpdate
  \/ SaveTimerFires
  \/ SaveResponds

SpecPage == Init /\ [][NextPage]_vars

\* Timers that stay set fire, and requests are answered.
SpecPageFair ==
  SpecPage /\ WF_vars(SaveTimerFires) /\ WF_vars(SaveResponds)

\* ------------------------------------------- the AI bubble menu's handlers
notMenuVars == << editorText, initialContentSet, ytext, yjsRef, comments, created,
                 lastEdit, edits, resolved, resolvedFresh, call, lifeVars,
                 registryVars, pageVars, highlightVars >>

\* What the editor's selection is when selectionUpdate fires: "empty", from
\* = to; "short", text of fewer than 3 characters after trim; "long1" and
\* "long2", two selections of 3 characters or more; "textThrows" and "coordsThrow", a
\* selection on which textBetween or coordsAtPos throws.
EditorSelections ==
  {"empty", "short", "long1", "long2", "textThrows", "coordsThrow"}

\* The view the component renders: the suggestion, the loading line, or the
\* action menu with its buttons.
MenuView ==
  IF menuState = "hidden" THEN "none"
  ELSE IF menuState = "suggestion" /\ suggestion THEN "suggestion"
  ELSE IF menuState = "loading" THEN "loading"
  ELSE "menu"

\* A handler of the menu ran: its name is recorded.
MenuHandler(name) ==
  /\ menuEvent' = name
  /\ UNCHANGED notMenuVars

\* The editor's selectionUpdate event; the handler is the one of the last
\* render.
handleSelectionUpdate ==
  \E sel \in EditorSelections :
    /\ MenuHandler("selectionUpdate")
    /\ IF isInteracting \/ dropdownOpen \/ menuState \in {"loading", "suggestion"}
       THEN UNCHANGED << menuState, selectionRange >>
       ELSE IF sel \in {"empty", "short"}
       THEN menuState' = "hidden" /\ selectionRange' = NoRange
       ELSE IF sel = "textThrows"
       THEN menuState' = "hidden" /\ UNCHANGED selectionRange
       ELSE IF sel = "coordsThrow"
       THEN UNCHANGED << menuState, selectionRange >>
       ELSE menuState' = "menu" /\ selectionRange' = sel
    /\ UNCHANGED << suggestion, dropdownOpen, isInteracting, blurTimers, aiRequests >>

\* The editor's blur event: a 150 ms timeout is set whose callback closes
\* over the dropdownOpen and menuState of the last render.
handleBlur ==
  /\ MenuHandler("blur")
  /\ blurTimers' = blurTimers \cup
       { [dropdownOpen |-> dropdownOpen, menuState |-> menuState] }
  /\ UNCHANGED << menuState, selectionRange, suggestion, dropdownOpen,
                  isInteracting, aiRequests >>

\* A blur timeout fires: it reads the ref now and the state it closed over.
BlurTimerFires ==
  \E timer \in blurTimers :
    /\ MenuHandler("blurTimer")
    /\ blurTimers' = blurTimers \ {timer}
    /\ menuState' =
         IF ~isInteracting /\ ~timer.dropdownOpen /\ timer.menuState = "menu"
         THEN "hidden" ELSE menuState
    /\ UNCHANGED << selectionRange, suggestion, dropdownOpen, isInteracting,
                    aiRequests >>

\* The mouse enters or leaves the menu; the loading line has no handlers.
handleMouseEnter ==
  /\ MenuView \in {"menu", "suggestion"}
  /\ MenuHandler("mouseEnter")
  /\ isInteracting' = TRUE
  /\ UNCHANGED << menuState, selectionRange, suggestion, dropdownOpen,
                  blurTimers, aiRequests >>

handleMouseLeave ==
  /\ MenuView \in {"menu", "suggestion"}
  /\ MenuHandler("mouseLeave")
  /\ isInteracting' = FALSE
  /\ UNCHANGED << menuState, selectionRange, suggestion, dropdownOpen,
                  blurTimers, aiRequests >>

\* The dropdown of the action menu opens or closes.
setDropdownOpen ==
  \E open \in BOOLEAN :
    /\ MenuView = "menu"
    /\ MenuHandler("dropdown")
    /\ dropdownOpen' = open
    /\ UNCHANGED << menuState, selectionRange, suggestion, isInteracting,
                    blurTimers, aiRequests >>

\* handleAIAction, from a button of the action menu (by mouse or keyboard).
\* textOk: textBetween returns text that is not blank.
handleAIAction ==
  \E textOk \in BOOLEAN :
    /\ MenuView = "menu"
    /\ aiRequests < MaxRequests
    /\ MenuHandler("aiAction")
    /\ IF selectionRange = NoRange \/ ~textOk
       THEN UNCHANGED << menuState, dropdownOpen, aiRequests >>
       ELSE /\ dropdownOpen' = FALSE
            /\ menuState' = "loading"
            /\ aiRequests' = aiRequests + 1
    /\ UNCHANGED << selectionRange, suggestion, isInteracting, blurTimers >>

\* The /api/ai request is answered: a result, an error body, or a failure
\* of fetch or of response.json().
AIResponds ==
  \E outcome \in {"result", "error", "throws"} :
    /\ aiRequests > 0
    /\ aiRequests' = aiRequests - 1
    /\ MenuHandler("response")
    /\ IF outcome = "result"
       THEN suggestion' = TRUE /\ menuState' = "suggestion"
       ELSE menuState' = "hidden" /\ UNCHANGED suggestion
    /\ UNCHANGED << selectionRange, dropdownOpen, isInteracting, blurTimers >>

\* Accept: the range is replaced by the suggestion and the menu is reset.
acceptSuggestion ==
  /\ MenuView = "suggestion"
  /\ MenuHandler("accept")
  /\ IF ~suggestion \/ selectionRange = NoRange
     THEN UNCHANGED << suggestion, selectionRange, menuState, isInteracting >>
     ELSE /\ suggestion' = FALSE
          /\ selectionRange' = NoRange
          /\ menuState' = "hidden"
          /\ isInteracting' = FALSE
  /\ UNCHANGED << dropdownOpen, blurTimers, aiRequests >>

rejectSuggestion ==
  /\ MenuView = "suggestion"
  /\ MenuHandler("reject")
  /\ suggestion' = FALSE
  /\ selectionRange' = NoRange
  /\ menuState' = "hidden"
  /\ isInteracting' = FALSE
  /\ UNCHANGED << dropdownOpen, blurTimers, aiRequests >>

NextMenu ==
  \/ handleSelectionUpdate
  \/ handleBlur
  \/ BlurTimerFires
  \/ handleMouseEnter
  \/ handleMouseLeave
  \/ setDropdownOpen
  \/ handleAIAction
  \/ AIResponds
  \/ acceptSuggestion
  \/ rejectSuggestion

SpecMenu == Init /\ [][NextMenu]_vars

\* --------------------------------------------- the page's comment highlights
notHighlightVars == << editorText, initialContentSet, ytext, yjsRef, comments,
                      created, lastEdit, edits, resolved, resolvedFresh, call,
                      lifeVars, registryVars, pageVars, menuVars >>

CommentIds == 1..MaxComments
\* Stored ranges: inside the document, reaching past its end, empty, and
\* wholly past its end.
StoredRanges == { <<1, 3>>, <<2, 9>>, <<4, 4>>, <<6, 8>> }

\* The highlight effect after a render with the comments cs: the timer of
\* the render before is cleared, and one is set when there are marks.
highlightEffect(cs) ==
  IF Len(commentMarks(cs)) > 0 THEN commentMarks(cs) ELSE NoMarks

\* setComments(cs): commentMarks is computed again and the effect runs.
SetComments(cs) ==
  /\ commentOps < MaxCommentOps
  /\ commentOps' = commentOps + 1
  /\ pageComments' = cs
  /\ highlightTimer' = highlightEffect(cs)
  /\ highlightsApplied' = FALSE
  /\ UNCHANGED highlights
  /\ UNCHANGED notHighlightVars

\* addComment's response: the new comment is put first.
CommentAdded ==
  \E id \in CommentIds, range \in StoredRanges :
    /\ \A i \in 1..Len(pageComments) : pageComments[i].id # id
    /\ SetComments(<< [id |-> id, selectionFrom |-> range[1],
                       selectionTo |-> range[2], isResolved |-> FALSE] >>
                   \o pageComments)

\* resolveComment's response: the comment is replaced by the stored one.
CommentResolved ==
  \E i \in 1..Len(pageComments), isResolved \in BOOLEAN :
    SetComments([pageComments EXCEPT ![i].isResolved = isResolved])

\* deleteComment's response: the comment leaves the list.
CommentDeleted ==
  \E i \in 1..Len(pageComments) :
    SetComments(Take(pageComments, i - 1) \o Drop(pageComments, i))

\* The 100 ms timer fires: applyHighlights of the render that set it.
HighlightTimerFires ==
  /\ highlightTimer # NoMarks
  /\ highlights' = applyHighlights(highlightTimer, HighlightDocSize, highlights)
  /\ highlightTimer' = NoMarks
  /\ highlightsApplied' = TRUE
  /\ UNCHANGED << pageComments, commentOps >>
  /\ UNCHANGED notHighlightVars

NextHighlights ==
  \/ CommentAdded
  \/ CommentResolved
  \/ CommentDeleted
  \/ HighlightTimerFires

SpecHighlights == Init /\ [][NextHighlights]_vars

\* A timer that stays set fires.
SpecHighlightsFair == SpecHighlights /\ WF_vars(HighlightTimerFires)

\* ------------------------------------------- the "Hello world" scenario
HelloWorld == <<"H", "e", "l", "l", "o", " ", "w", "o", "r", "l", "d">>
SayText == <<"S", "a", "y", " ">>

\* The document "Hello world" has loaded into the editor.
InitHello ==
  /\ editorText = HelloWorld
  /\ initialContentSet = TRUE
  /\ ytext = syncToYjs(HelloWorld, <<>>)
  /\ yjsRef = FALSE
  /\ comments = <<>>
  /\ created = <<>>
  /\ lastEdit = [kind |-> "set", p |-> 0, k |-> 0]
  /\ edits = 0
  /\ resolved = <<>>
  /\ resolvedFresh = FALSE
  /\ call = NoCall
  /\ docDestroyed = FALSE
  /\ usedDestroyed = FALSE
  /\ registry = EmptyRegistry
  /\ regCall = NoRegCall
  /\ InitUi

HelloInsert == InsertAt({SayText}, Len(HelloWorld) + Len(SayText))

NextHello ==
  \/ HelloInsert
  \/ setYjsDocument
  \/ addComment
  \/ getResolvedComments

SpecHello == InitHello /\ [][NextHello]_vars

\* ================================================================ claims
AnchorCalls == {"resolveCommentAnchorWith", "resolveCommentAnchor", "createResolve"}

\* The document size a call of resolveCommentAnchor was given.
CallDocSize == IF call.fn = "createResolve" THEN YLength(call.frag) ELSE call.docSize

\* C1: whenever resolveCommentAnchor returns isValid = TRUE, the range
\* satisfies 0 <= from <= to <= document size, for every pair of raw resolved
\* offsets, inverted or beyond the document size included.
C1_ValidRangeOrderedAndBounded ==
  (call.fn \in AnchorCalls /\ call.out.res.isValid) =>
    /\ 0 <= call.out.res.from
    /\ call.out.res.from <= call.out.res.to
    /\ call.out.res.to <= CallDocSize

\* A valid result for raw offsets that resolve inverted and past the end.
C1_Witness ==
  /\ call.fn = "resolveCommentAnchorWith"
  /\ call.out.res.isValid
  /\ ~call.from.isNull /\ ~call.to.isNull
  /\ call.from.n > call.to.n
  /\ call.from.n > call.docSize

\* Whether a stored string resolves to an offset of the fragment.
ResolvesOn(frag, encoded) ==
  /\ decodeRelativePosition(encoded).ok
  /\ LET r == relativePositionToAbsolutePosition(frag, decodeRelativePosition(encoded).rp)
     IN ~r.threw /\ ~r.raw.isNull /\ r.raw.n >= 0

\* C3: an anchor is all-or-nothing: when either position is unresolvable
\* (null) or negative, resolveCommentAnchor returns exactly
\* {from: 0, to: 0, isValid: false}; a valid result has both ends resolved.
C3_AllOrNothing ==
  /\ (call.fn = "resolveCommentAnchorWith"
        /\ (call.from.isNull \/ call.to.isNull \/ call.from.n < 0 \/ call.to.n < 0))
       => call.out.res = InvalidAnchor
  /\ (call.fn = "resolveCommentAnchor" /\ call.out.res.isValid)
       => /\ ResolvesOn(call.frag, call.anchor.fromRelative)
          /\ ResolvesOn(call.frag, call.anchor.toRelative)
  /\ (call.fn \in AnchorCalls /\ ~call.out.res.isValid)
       => call.out.res = InvalidAnchor

\* Only the end position is unresolvable, and the result is the invalid one.
C3_Witness ==
  /\ call.fn = "resolveCommentAnchorWith"
  /\ ~call.libThrew
  /\ ~call.from.isNull /\ call.from.n > 0 /\ call.from.n <= call.docSize
  /\ call.to.isNull
  /\ call.out.res = InvalidAnchor

ResolutionCalls ==
  {"resolveCommentAnchorWith", "resolveCommentAnchor", "resolveFallbackAnchor",
   "isFallbackAnchor", "resolveCommentPositions"}

\* C4: every resolution path is total: for any stored strings and any
\* document state resolveCommentAnchor, resolveFallbackAnchor,
\* isFallbackAnchor and resolveCommentPositions return and never throw, and
\* resolveCommentAnchor turns any exception into {0, 0, isValid: false}.
C4_ResolutionTotal ==
  /\ call.fn \in ResolutionCalls => ~call.out.threw
  /\ (call.fn \in {"resolveCommentAnchorWith", "resolveCommentAnchor"}
        /\ call.out.caught) => call.out.res = InvalidAnchor

\* A stored string outside the base64 alphabet made the try block throw.
C4_Witness ==
  /\ call.fn = "resolveCommentAnchor"
  /\ call.docPresent
  /\ call.anchor.fromRelative = <<"!", "!">>
  /\ call.out.caught
  /\ ~call.out.threw

C10_FallbackRoundTrip ==
  call.fn = "fallbackRoundTrip" =>
    call.out.res = [from |-> JNum(call.from), to |-> JNum(call.to), isValid |-> TRUE]

\* The spec's example, (5, 12).
C10_Witness ==
  /\ call.fn = "fallbackRoundTrip"
  /\ call.from = 5 /\ call.to = 12
  /\ call.out.res.isValid
  /\ call.out.res.from = JNum(5) /\ call.out.res.to = JNum(12)

\* A comment whose stored range lay within the tracked text when it was added.
InRangeAtCreation(i) == comments[i].selectionTo <= created[i].len

\* A comment anchored with relative positions whose tracked text has seen
\* exactly one transaction since, the last edit.
AnchoredOneEditAgo(i) ==
  /\ created[i].anchored
  /\ created[i].editsSince = 1
  /\ InRangeAtCreation(i)

\* C2: for every comment, the range getResolvedComments produces satisfies
\* from <= to and lies within [0, current tracked text length].
C2_HookRangeOrderedAndBounded ==
  (resolvedFresh /\ yjsRef) =>
    \A i \in 1..Len(comments) :
      InRangeAtCreation(i) =>
        /\ resolved[i].from <= resolved[i].to
        /\ 0 <= resolved[i].from
        /\ resolved[i].to <= YLength(ytext)

\* C6: after k characters are inserted at an offset p < from, a comment
\* anchored at [from, to) resolves to {from + k, to + k}.
C6_InsertBeforeShifts ==
  resolvedFresh =>
    \A i \in 1..Len(comments) :
      (AnchoredOneEditAgo(i) /\ lastEdit.kind = "insert"
         /\ lastEdit.p < comments[i].selectionFrom) =>
        /\ resolved[i].from = comments[i].selectionFrom + lastEdit.k
        /\ resolved[i].to = comments[i].selectionTo + lastEdit.k

\* C7: after k characters are inserted at an offset p with from <= p <= to,
\* a comment anchored at a non-empty [from, to) resolves to from' = from,
\* to' = to + k.
C7_InsertInsideExtends ==
  resolvedFresh =>
    \A i \in 1..Len(comments) :
      (AnchoredOneEditAgo(i) /\ lastEdit.kind = "insert"
         /\ comments[i].selectionFrom < comments[i].selectionTo
         /\ comments[i].selectionFrom <= lastEdit.p
         /\ lastEdit.p <= comments[i].selectionTo) =>
        /\ resolved[i].from = comments[i].selectionFrom
        /\ resolved[i].to = comments[i].selectionTo + lastEdit.k

\* C8: with "Hello world" and a comment anchored at [0, 5), inserting "Say "
\* at offset 0 makes the anchor resolve to [4, 9).
C8_HelloScenario ==
  (resolvedFresh /\ editorText = SayText \o HelloWorld
     /\ lastEdit = [kind |-> "insert", p |-> 0, k |-> Len(SayText)]) =>
    \A i \in 1..Len(comments) :
      (AnchoredOneEditAgo(i) /\ comments[i].selectionFrom = 0
         /\ comments[i].selectionTo = 5) =>
        /\ resolved[i].from = 4
        /\ resolved[i].to = 9

\* C9: after every character of the anchored range [from, to) has been
\* deleted, resolving the anchor does not yield a range from the relative
\* positions: the anchor counts as unresolvable.
C9_DeletedRangeUnresolvable ==
  resolvedFresh =>
    \A i \in 1..Len(comments) :
      (AnchoredOneEditAgo(i) /\ lastEdit.kind = "delete"
         /\ comments[i].selectionFrom < comments[i].selectionTo
         /\ lastEdit.p <= comments[i].selectionFrom
         /\ comments[i].selectionTo <= lastEdit.p + lastEdit.k) =>
        ~resolved[i].viaYjs

\* C11: mode discrimination: isFallbackAnchor answers true on every anchor
\* createFallbackAnchor makes and false on every anchor createCommentAnchor
\* makes (base64 of an encoded relative position).
C11_ModeDiscrimination ==
  /\ call.fn = "isFallbackOfFallback" => (~call.out.threw /\ call.out.res)
  /\ call.fn = "isFallbackOfComment" => (~call.out.threw /\ ~call.out.res)

\* An anchor of createCommentAnchor whose end lies at the end of the
\* fragment was told apart from a fallback anchor.
C11_Witness ==
  /\ call.fn = "isFallbackOfComment"
  /\ call.from < call.to
  /\ call.to = YLength(call.frag)
  /\ call.out.caught
  /\ ~call.out.res

\* The tagged shape of a fallback payload: a JSON object whose member
\* "absolute" is a non-negative integer.
MatchesTaggedShape(payload) ==
  LET parsed == JSONParse(payload)
  IN /\ parsed.ok
     /\ parsed.t = "object"
     /\ parsed.absolute.t = "number"
     /\ parsed.absolute.n >= 0

\* C12: resolveFallbackAnchor returns isValid = true only when both stored
\* payloads match the tagged shape {"absolute": <non-negative integer>};
\* for any other payload it returns {0, 0, isValid: false}.
C12_FallbackShapeChecked ==
  call.fn = "resolveFallbackShapes" =>
    IF MatchesTaggedShape(call.anchor.fromRelative)
         /\ MatchesTaggedShape(call.anchor.toRelative)
    THEN call.out.res.isValid
    ELSE call.out.res = InvalidFallback

\* C13: a valid result of the fallback resolution satisfies
\* 0 <= from <= to <= current document length, as a valid result of
\* resolveCommentAnchor does.
C13_FallbackNormalised ==
  (call.fn = "fallbackOnDocument" /\ call.out.res.isValid) =>
    /\ call.out.res.from.t = "number" /\ call.out.res.to.t = "number"
    /\ 0 <= call.out.res.from.n
    /\ call.out.res.from.n <= call.out.res.to.n
    /\ call.out.res.to.n <= call.docSize

\* C14: for a comment whose fromRelative and toRelative are both null or
\* absent, resolveCommentPositions decodes and resolves nothing and returns
\* exactly the stored (selectionFrom, selectionTo), whatever the tracked
\* document holds.
C14_NoAnchorUsesStoredRange ==
  (call.fn = "resolveCommentPositions"
     /\ call.comment.fromRelative = <<>> /\ call.comment.toRelative = <<>>) =>
    /\ ~call.out.tried
    /\ ~call.out.threw /\ ~call.out.caught /\ ~call.out.viaYjs
    /\ call.out.from = call.comment.selectionFrom
    /\ call.out.to = call.comment.selectionTo

\* The hook holds a Yjs document with live and deleted characters, the
\* comment has no anchor, and its stored range reaches past the tracked text.
C14_Witness ==
  /\ call.fn = "resolveCommentPositions"
  /\ call.hasYjs
  /\ call.comment.fromRelative = <<>> /\ call.comment.toRelative = <<>>
  /\ YLength(call.yt) > 0 /\ YLength(call.yt) < Len(call.yt)
  /\ call.comment.selectionTo > YLength(call.yt)
  /\ call.out.from = call.comment.selectionFrom
  /\ call.out.to = call.comment.selectionTo

\* C15: when a comment's stored anchor cannot be decoded or cannot be
\* resolved, the comment stays in the list and no highlight range is
\* produced for it: the stale stored offsets are not highlighted.
C15_UnresolvableNotHighlighted ==
  (call.fn = "highlightComment"
     /\ call.comment.fromRelative # <<>> /\ call.comment.toRelative # <<>>
     /\ ~call.out.viaYjs) =>
    /\ Len(call.listed) = 1
    /\ call.highlights = {}

\* C16: codec round trip: decodeRelativePosition(encodeRelativePosition(p))
\* equals p for every valid durable position p, and the hook's
\* base64ToUint8Array(uint8ArrayToBase64(b)) equals b for every byte
\* sequence b, so a stored string decodes to the position it was made from.
C16_CodecRoundTrip ==
  /\ call.fn = "codecRoundTrip" =>
       /\ call.out.ok /\ call.out.rp = call.rp
       /\ call.hook.ok /\ call.hook.decoded.ok /\ call.hook.decoded.rp = call.rp
  /\ call.fn = "base64RoundTrip" =>
       /\ call.out.ok /\ call.out.bytes = call.bytes

\* A position on an item whose client and clock take two bytes each, with a
\* negative association, came back from its base64 string.
C16_Witness ==
  /\ call.fn = "codecRoundTrip"
  /\ call.rp.kind = "item"
  /\ call.rp.client >= 128 /\ call.rp.clock >= 128 /\ call.rp.assoc < 0
  /\ call.out.rp = call.rp

\* C20: in the AI route Groq is the primary provider and OpenAI the
\* fallback: OpenAI is called only when no Groq key is configured or the
\* Groq call produced no result, and the response carries provider 'groq'
\* whenever a Groq key is configured and the Groq call returned a non-empty
\* result.
C20_GroqPrimary ==
  call.fn = "POST" =>
    /\ call.out.calledGroq => call.groqKey
    /\ call.out.calledOpenAI =>
         (~call.groqKey \/ (call.out.calledGroq /\ callGroqAPI(call.groq) = Null))
    /\ (call.groqKey /\ call.out.calledGroq /\ callGroqAPI(call.groq) # Null) =>
         call.out.provider = "groq"
    /\ (call.bodyOk /\ call.hasText /\ call.groqKey) => call.out.calledGroq

\* Both keys are set, Groq answers with an error status, and OpenAI's
\* completion is returned.
C20_Witness ==
  /\ call.fn = "POST"
  /\ call.groqKey /\ call.openaiKey
  /\ call.groq = "status" /\ call.openai = "text"
  /\ call.out.calledGroq /\ call.out.calledOpenAI
  /\ call.out.provider = "openai"

\* C17: each mutation batch on the tracked document is atomically visible:
\* syncToYjs replaces the tracked text in one transaction, so whenever a
\* build or a resolve can run, the tracked text is the editor's whole text,
\* never the intermediate state with the old text deleted and the new text
\* not yet inserted.
C17_SyncAtomic == YToString(ytext) = editorText

\* A comment anchored before an edit was resolved after the edit had
\* replaced the tracked text, which holds the old text as tombstones.
C17_Witness ==
  /\ resolvedFresh
  /\ editorText # <<>>
  /\ YToString(ytext) = editorText
  /\ \E i \in 1..Len(ytext) : ytext[i].deleted
  /\ \E i \in 1..Len(comments) : created[i].anchored /\ created[i].editsSince > 0

\* The instances of the registry created for id and not destroyed.
LiveInstancesOf(reg, id) ==
  { i \in 1..Len(reg.instances) :
      reg.instances[i].id = id /\ ~reg.instances[i].destroyed }

\* C18: the registry keeps at most one live Yjs instance per document id:
\* getYjsDocument(id) returns the cached instance until
\* destroyYjsDocument(id), which destroys it and removes the id from the
\* cache; a later getYjsDocument(id) creates a fresh empty instance, and
\* destroying an unknown id changes nothing.
C18_RegistryOnePerId ==
  /\ \A id \in DocIds :
       LiveInstancesOf(registry, id) =
         IF registry.docs[id] = 0 THEN {} ELSE {registry.docs[id]}
  /\ regCall.fn = "getYjsDocument" =>
       IF regCall.before.docs[regCall.id] # 0
       THEN regCall.got = regCall.before.docs[regCall.id] /\ registry = regCall.before
       ELSE /\ regCall.got = Len(regCall.before.instances) + 1
            /\ registry.docs[regCall.id] = regCall.got
            /\ registry.instances[regCall.got] = NewDoc(regCall.id)
  /\ regCall.fn = "destroyYjsDocument" =>
       /\ registry.docs[regCall.id] = 0
       /\ IF regCall.before.docs[regCall.id] = 0
          THEN registry = regCall.before
          ELSE registry.instances[regCall.before.docs[regCall.id]].destroyed

\* getYjsDocument made a fresh empty instance for an id whose earlier
\* instance held content and was destroyed.
C18_Witness ==
  /\ regCall.fn = "getYjsDocument"
  /\ regCall.before.docs[regCall.id] = 0
  /\ registry.instances[regCall.got].items = 0
  /\ \E i \in 1..Len(regCall.before.instances) :
       /\ regCall.before.instances[i].id = regCall.id
       /\ regCall.before.instances[i].destroyed
       /\ regCall.before.instances[i].items > 0

\* C19: the anchoring layer holds no reference to the tracked document
\* beyond a single call: after the editor view has closed and destroyed its
\* Yjs document, no addComment or resolveCommentPositions call runs against
\* the destroyed instance.
C19_NoUseAfterDestroy == ~usedDestroyed

\* C21: the AI route returns the mock (demo) response only when no API key
\* is configured: with GROQ_API_KEY or OPENAI_API_KEY present, the response
\* to a request with non-empty text is never the mock response.
C21_MockOnlyWithoutKey ==
  (call.fn = "POST" /\ call.bodyOk /\ call.hasText
     /\ (call.groqKey \/ call.openaiKey)) => ~call.out.mock

\* The nodes of a fragment in document order, one entry per character of
\* text with its marks and one entry per opening and closing of a node.
RECURSIVE Flatten(_)
FlattenNode(node) ==
  IF node.isText
  THEN [i \in 1..Len(node.text) |->
          [kind |-> "char", type |-> node.text[i], marks |-> node.marks]]
  ELSE << [kind |-> "open", type |-> node.type, marks |-> node.marks] >>
       \o Flatten(node.content)
       \o << [kind |-> "close", type |-> node.type, marks |-> node.marks] >>
Flatten(fragment) ==
  IF fragment = <<>> THEN <<>>
  ELSE FlattenNode(Head(fragment)) \o Flatten(Tail(fragment))

HasHighlight(marks) ==
  \E i \in 1..Len(marks) : marks[i].type = "commentHighlight"

TextHighlighted(flat) ==
  \E i \in 1..Len(flat) : flat[i].kind = "char" /\ HasHighlight(flat[i].marks)

\* C22: comment highlights are non-copyable: for every slice,
\* stripCommentHighlightsFromSlice returns a slice in which no text node at
\* any nesting depth carries a commentHighlight mark, while the text, the
\* node structure and every other mark are unchanged. Compared are the
\* characters with their marks and the opening and closing of every
\* enclosing node, in document order, and the open depths of the slice.
C22_HighlightsStripped ==
  call.fn = "transformCopied" =>
    LET before == Flatten(call.slice.content)
        after == Flatten(call.out.content)
    IN /\ ~TextHighlighted(after)
       /\ Len(after) = Len(before)
       /\ \A i \in 1..Len(before) :
            /\ after[i].kind = before[i].kind
            /\ after[i].type = before[i].type
            /\ after[i].marks =
                 IF before[i].kind = "char"
                 THEN FilterHighlightMarks(before[i].marks)
                 ELSE before[i].marks
       /\ call.out.openStart = call.slice.openStart
       /\ call.out.openEnd = call.slice.openEnd

\* A copied slice held bold highlighted text inside a paragraph of a
\* blockquote, and the copy keeps the bold text without the highlight.
C22_Witness ==
  /\ call.fn = "transformCopied"
  /\ Len(call.slice.content) = 2
  /\ call.slice.content[1] =
       ElementNode("blockquote",
         << ElementNode("paragraph", << TextNode(<<"a">>, <<Bold, Highlight(1)>>) >>) >>)
  /\ call.out.content[1] =
       ElementNode("blockquote",
         << ElementNode("paragraph", << TextNode(<<"a">>, <<Bold>>) >>) >>)

\* C23: when pasted content carries no comment highlight, the paste handler
\* leaves the paste to the editor's default handling (handlePaste returns
\* false and dispatches no transaction); it takes over the paste only when a
\* highlight was stripped.
C23_PasteDefaultWhenClean ==
  (call.fn = "handlePaste" /\ ~TextHighlighted(Flatten(call.slice.content))) =>
    (~call.out.handled /\ ~call.out.dispatched)

\* C25: after every syncToYjs call that does not fail, the tracked text
\* equals the editor's plain text content; and when the two were already
\* equal the call performs no transaction, leaving the tracked document (its
\* items, tombstones and clocks, hence every relative position) unchanged.
C25_SyncEqualAndIdle ==
  call.fn = "syncToYjs" =>
    /\ YToString(call.out) = call.text
    /\ (YToString(call.yt) = call.text) => (call.out = call.yt)

\* syncToYjs ran on a tracked document with tombstones whose live text was
\* the editor's text already, and left it alone.
C25_Witness ==
  /\ call.fn = "syncToYjs"
  /\ call.text # <<>>
  /\ YToString(call.yt) = call.text
  /\ \E i \in 1..Len(call.yt) : call.yt[i].deleted
  /\ call.out = call.yt

\* C24: content from props is applied to the editor at most once per editor
\* instance: once initial content has been set, no later change of the
\* content prop replaces the editor document.
C24_ContentAppliedOnce ==
  [][(setContentCalls' # setContentCalls) =>
       (~hasSetInitialContent /\ setContentCalls = 0)]_vars

\* After the initial content was set and the user edited, a save response
\* brought an older content into the content prop and the editor kept the
\* user's document.
C24_Witness ==
  /\ hasSetInitialContent
  /\ setContentCalls = 1
  /\ pageContent # EmptyContent
  /\ pageContent # editorDoc
  /\ editorDoc = LoadedContent + pageEdits

\* C27: auto-save loses no edit: under any interleaving of edits, debounce
\* timers and save responses, every content change is eventually handed to
\* updateDocument (as that content or a later one) without a further user
\* action, also when it was made while an earlier save was in flight.
C27_NoEditLost ==
  \A n \in 1..MaxEdits :
    (editorDoc = LoadedContent + n) ~>
      (\E sent \in sentContents : sent >= LoadedContent + n)

\* C26: in the AI bubble menu, while menuState is 'loading' or 'suggestion'
\* no selection-change or blur event (the blur handler's timeout included)
\* changes menuState or the stored selectionRange: 'loading' is left only by
\* the response (to 'suggestion' or to 'hidden'), and 'suggestion' only by
\* accept or reject (to 'hidden').
C26_MenuLocked ==
  [][/\ (menuState \in {"loading", "suggestion"}
           /\ menuEvent' \in {"selectionUpdate", "blur", "blurTimer"}) =>
          (menuState' = menuState /\ selectionRange' = selectionRange)
     /\ (menuState = "loading" /\ menuState' # "loading") =>
          (menuEvent' = "response" /\ menuState' \in {"suggestion", "hidden"})
     /\ (menuState = "suggestion" /\ menuState' # "suggestion") =>
          (menuEvent' \in {"accept", "reject"} /\ menuState' = "hidden")]_vars

\* The comment id is listed and not resolved.
Unresolved(id) ==
  \E i \in 1..Len(pageComments) :
    pageComments[i].id = id /\ ~pageComments[i].isResolved

Highlighted(id) == \E h \in highlights : h.id = id

\* The highlights the unresolved comments with a non-empty clamped range ask for.
ExpectedHighlights ==
  { [id |-> pageComments[i].id,
     from |-> Max(0, pageComments[i].selectionFrom),
     to |-> Min(HighlightDocSize, pageComments[i].selectionTo)] :
      i \in { j \in 1..Len(pageComments) :
                /\ ~pageComments[j].isResolved
                /\ Max(0, pageComments[j].selectionFrom)
                     < Min(HighlightDocSize, pageComments[j].selectionTo) } }

\* C28: after each run of applyHighlights the comment highlights in the
\* editor correspond exactly to the current unresolved comments with a
\* non-empty clamped range; and once a comment is resolved or deleted its
\* highlight is eventually removed (unless the comment is unresolved
\* again), also when it was the last highlighted comment.
C28_HighlightsFollowComments ==
  /\ [](highlightsApplied => highlights = ExpectedHighlights)
  /\ \A id \in CommentIds :
       (~Unresolved(id)) ~> (~Highlighted(id) \/ Unresolved(id))

====
